---------------------------- MODULE Spec2Model ----------------------------
(***************************************************************************)
(* BuffetGPT decision pipeline:                                            *)
(*   detected dishes -> NutritionAgent -> StomachPhysicsAgent              *)
(*                   -> GoalOptimizationAgent -> StrategyPlanningAgent     *)
(*                                                                         *)
(* Numbers.  The source computes in floats; the model computes the same    *)
(* quantities exactly, as scaled integers or as ratios <<num, den>>:       *)
(*   - per-100g nutrition values, estimated_grams, density : tenths        *)
(*   - detection / nutrition confidence                    : hundredths    *)
(*   - volume_ml of a dish                                 : thousandths   *)
(*   - satiety_score (round(., 2))                         : hundredths    *)
(*   - PhaseItem calories/protein/carbs/fat/portion_ml and the planner's   *)
(*     running totals (round(., 1))                        : tenths        *)
(*   - portion_grams (round(., 0))                         : whole grams   *)
(* Python's round is round-half-to-even; see pyround.                      *)
(* Strings are TLC strings; Len, SubSeq and \o act on them character by    *)
(* character.  None is the string "None" where the field is a string or a  *)
(* dict, and the empty set where it is an Optional number.                 *)
(***************************************************************************)
EXTENDS Integers, Sequences, FiniteSets, TLC

(***************************************************************************)
(* Python built-ins used by the agents                                     *)
(***************************************************************************)
UpperAlpha == "ABCDEFGHIJKLMNOPQRSTUVWXYZ"

LowerAlpha == "abcdefghijklmnopqrstuvwxyz"

Digits == "0123456789"

\* position of the one-character string c in the string s, 0 when absent
IndexIn(c, s) ==
  IF \E i \in 1..Len(s) : SubSeq(s, i, i) = c
  THEN CHOOSE i \in 1..Len(s) :
         /\ SubSeq(s, i, i) = c
         /\ \A j \in 1..(i - 1) : SubSeq(s, j, j) # c
  ELSE 0

char_lower(c) ==
  IF IndexIn(c, UpperAlpha) > 0
  THEN SubSeq(LowerAlpha, IndexIn(c, UpperAlpha), IndexIn(c, UpperAlpha))
  ELSE c

char_upper(c) ==
  IF IndexIn(c, LowerAlpha) > 0
  THEN SubSeq(UpperAlpha, IndexIn(c, LowerAlpha), IndexIn(c, LowerAlpha))
  ELSE c

is_alpha(c) == IndexIn(c, UpperAlpha) > 0 \/ IndexIn(c, LowerAlpha) > 0

\* str.lower(), character by character
RECURSIVE lower_chars(_)
lower_chars(s) ==
  IF s = "" THEN ""
  ELSE char_lower(SubSeq(s, 1, 1)) \o lower_chars(SubSeq(s, 2, Len(s)))

\* the strings the model lower-cases over and over, tabulated once
FrequentStrings ==
  {"Mixed Salad", "Grilled Chicken", "Dessert", "Eggs", "Cheese", "Carrot", "Soup",
   "xyzfood123", "Rice", "Bread", "Broth", "Chicken", "egg", "vegan", "Vegetarian", "vegetarian", "VEGAN",
   "Starter", "Protein", "Vegetables", "Carbs", "Treats",
   "mixed salad", "grilled chicken", "dessert",
   "Chicken Salad", "SOUP", "Beef Consomme", "Steak", "Salmon", "Meatballs", "Egg",
   "Fish Cake", "Rice Cake", "Carrot Cake", "Donut", "Cookie", "Pastry", "Pasta",
   "Potato", "Quinoa", "Beans", "Vegetable Rice", "Broccoli", "Tofu", "Hot Dog"}

LowerTable == [s \in FrequentStrings |-> lower_chars(s)]

str_lower(s) == IF s \in FrequentStrings THEN LowerTable[s] ELSE lower_chars(s)

\* str.strip()
RECURSIVE str_lstrip(_)
str_lstrip(s) ==
  IF s # "" /\ SubSeq(s, 1, 1) = " " THEN str_lstrip(SubSeq(s, 2, Len(s))) ELSE s

RECURSIVE str_rstrip(_)
str_rstrip(s) ==
  IF s # "" /\ SubSeq(s, Len(s), Len(s)) = " "
  THEN str_rstrip(SubSeq(s, 1, Len(s) - 1)) ELSE s

str_strip(s) == str_rstrip(str_lstrip(s))

\* str.title(): a letter that follows a non-letter is upper-cased, any other
\* letter lower-cased
RECURSIVE str_title_from(_, _)
str_title_from(s, prev_alpha) ==
  IF s = "" THEN ""
  ELSE LET c == SubSeq(s, 1, 1)
       IN (IF prev_alpha THEN char_lower(c) ELSE char_upper(c))
            \o str_title_from(SubSeq(s, 2, Len(s)), is_alpha(c))

str_title(s) == str_title_from(s, FALSE)

\* str.replace(old, new) for a one-character old
RECURSIVE str_replace(_, _, _)
str_replace(s, old, new) ==
  IF s = "" THEN ""
  ELSE (IF SubSeq(s, 1, 1) = old THEN new ELSE SubSeq(s, 1, 1))
         \o str_replace(SubSeq(s, 2, Len(s)), old, new)

\* the operator "kw in s" on strings
str_in(kw, s) ==
  \E i \in 0..(Len(s) - Len(kw)) : SubSeq(s, i + 1, i + Len(kw)) = kw

\* sep.join(names)
RECURSIVE str_join(_, _)
str_join(sep, names) ==
  IF names = <<>> THEN ""
  ELSE IF Len(names) = 1 THEN names[1]
  ELSE names[1] \o sep \o str_join(sep, Tail(names))

\* str(n) of a non-negative int
RECURSIVE str_int(_)
str_int(n) ==
  IF n < 10 THEN SubSeq(Digits, n + 1, n + 1)
  ELSE str_int(n \div 10) \o SubSeq(Digits, (n % 10) + 1, (n % 10) + 1)

\* repr of a number of the nutrition table, given in tenths: the table writes
\* whole values as ints (18) and the others with one decimal (1.5)
str_tenths(v) ==
  IF v % 10 = 0 THEN str_int(v \div 10)
  ELSE str_int(v \div 10) \o "." \o str_int(v % 10)

\* round(num / den) to the nearest integer, ties to the even one; den > 0.
\* The code rounds binary floats: a decimal value that is an exact tie here
\* (4.35 to one decimal) may sit just below or above the tie as a float, and
\* the code then rounds it the other way (4.3). On the inputs enumerated
\* below this changes the last digit of a PhaseItem fat value and of
\* avg_satiety_score in some runs, and nothing else: portions, volumes,
\* totals, phases, skip lists and explanations agree with the code.
pyround(num, den) ==
  LET q == num \div den
      r == num - q * den
  IN IF 2 * r < den THEN q
     ELSE IF 2 * r > den THEN q + 1
     ELSE IF q % 2 = 0 THEN q ELSE q + 1

RECURSIVE gcd(_, _)
gcd(a, b) == IF b = 0 THEN a ELSE gcd(b, a % b)

\* ratios <<num, den>> with den > 0, in lowest terms
ratio(num, den) ==
  LET g == gcd(IF num < 0 THEN 0 - num ELSE num, den)
  IN <<num \div g, den \div g>>

ratio_le(a, b) == a[1] * b[2] <= b[1] * a[2]

ratio_min(a, b) == IF ratio_le(a, b) THEN a ELSE b

Max(a, b) == IF a >= b THEN a ELSE b

Min(a, b) == IF a <= b THEN a ELSE b

\* [f(x) for x in xs]
SeqMap(f(_), xs) == [i \in 1..Len(xs) |-> f(xs[i])]

\* x in xs
SeqIn(x, xs) == \E i \in 1..Len(xs) : xs[i] = x

\* number of occurrences of x in xs
SeqCount(x, xs) == Cardinality({i \in 1..Len(xs) : xs[i] = x})

RECURSIVE SeqSum(_)
SeqSum(xs) == IF xs = <<>> THEN 0 ELSE Head(xs) + SeqSum(Tail(xs))

(***************************************************************************)
(* app/config.py                                                           *)
(***************************************************************************)
STOMACH_CAPACITY_ML == 1350

DEFAULT_CALORIE_LIMIT == 2000

(***************************************************************************)
(* app/agents/nutrition.py                                                 *)
(***************************************************************************)
\* the table in insertion order, which is the order dict iteration follows
_load_nutrition_db ==
  <<
    [key |-> "mixed salad", cal |-> 180, protein |-> 15, fat |-> 3, carbs |-> 35, fiber |-> 12, gl |-> 20],
    [key |-> "salad", cal |-> 180, protein |-> 15, fat |-> 3, carbs |-> 35, fiber |-> 12, gl |-> 20],
    [key |-> "grilled chicken", cal |-> 1650, protein |-> 310, fat |-> 36, carbs |-> 0, fiber |-> 0, gl |-> 0],
    [key |-> "chicken", cal |-> 1650, protein |-> 310, fat |-> 36, carbs |-> 0, fiber |-> 0, gl |-> 0],
    [key |-> "roasted vegetables", cal |-> 650, protein |-> 20, fat |-> 30, carbs |-> 80, fiber |-> 25, gl |-> 40],
    [key |-> "vegetables", cal |-> 650, protein |-> 20, fat |-> 30, carbs |-> 80, fiber |-> 25, gl |-> 40],
    [key |-> "rice", cal |-> 1300, protein |-> 27, fat |-> 3, carbs |-> 280, fiber |-> 4, gl |-> 230],
    [key |-> "bread roll", cal |-> 2650, protein |-> 85, fat |-> 32, carbs |-> 500, fiber |-> 27, gl |-> 250],
    [key |-> "bread", cal |-> 2650, protein |-> 85, fat |-> 32, carbs |-> 500, fiber |-> 27, gl |-> 250],
    [key |-> "soup", cal |-> 450, protein |-> 25, fat |-> 15, carbs |-> 60, fiber |-> 10, gl |-> 50],
    [key |-> "pasta", cal |-> 1310, protein |-> 50, fat |-> 11, carbs |-> 250, fiber |-> 18, gl |-> 180],
    [key |-> "dessert", cal |-> 3500, protein |-> 40, fat |-> 150, carbs |-> 500, fiber |-> 10, gl |-> 350],
    [key |-> "cake", cal |-> 3500, protein |-> 40, fat |-> 150, carbs |-> 500, fiber |-> 10, gl |-> 350],
    [key |-> "donut", cal |-> 4210, protein |-> 50, fat |-> 220, carbs |-> 520, fiber |-> 15, gl |-> 400],
    [key |-> "pizza", cal |-> 2660, protein |-> 110, fat |-> 100, carbs |-> 330, fiber |-> 23, gl |-> 220],
    [key |-> "hot dog", cal |-> 2900, protein |-> 100, fat |-> 260, carbs |-> 40, fiber |-> 0, gl |-> 30],
    [key |-> "sandwich", cal |-> 2500, protein |-> 120, fat |-> 100, carbs |-> 280, fiber |-> 15, gl |-> 200],
    [key |-> "broccoli", cal |-> 340, protein |-> 28, fat |-> 4, carbs |-> 70, fiber |-> 26, gl |-> 20],
    [key |-> "carrot", cal |-> 410, protein |-> 9, fat |-> 2, carbs |-> 100, fiber |-> 28, gl |-> 50],
    [key |-> "apple", cal |-> 520, protein |-> 3, fat |-> 2, carbs |-> 140, fiber |-> 24, gl |-> 60],
    [key |-> "orange", cal |-> 470, protein |-> 9, fat |-> 1, carbs |-> 120, fiber |-> 24, gl |-> 50],
    [key |-> "banana", cal |-> 890, protein |-> 11, fat |-> 3, carbs |-> 230, fiber |-> 26, gl |-> 120],
    [key |-> "steak", cal |-> 2710, protein |-> 260, fat |-> 180, carbs |-> 0, fiber |-> 0, gl |-> 0],
    [key |-> "fish", cal |-> 2060, protein |-> 220, fat |-> 120, carbs |-> 0, fiber |-> 0, gl |-> 0],
    [key |-> "salmon", cal |-> 2080, protein |-> 200, fat |-> 130, carbs |-> 0, fiber |-> 0, gl |-> 0],
    [key |-> "fried chicken", cal |-> 2870, protein |-> 230, fat |-> 180, carbs |-> 120, fiber |-> 5, gl |-> 80],
    [key |-> "potato", cal |-> 770, protein |-> 20, fat |-> 1, carbs |-> 170, fiber |-> 22, gl |-> 140],
    [key |-> "fries", cal |-> 3120, protein |-> 34, fat |-> 150, carbs |-> 420, fiber |-> 38, gl |-> 250],
    [key |-> "cheese", cal |-> 4020, protein |-> 250, fat |-> 330, carbs |-> 13, fiber |-> 0, gl |-> 0],
    [key |-> "eggs", cal |-> 1550, protein |-> 130, fat |-> 110, carbs |-> 11, fiber |-> 0, gl |-> 0],
    [key |-> "beans", cal |-> 1270, protein |-> 87, fat |-> 5, carbs |-> 230, fiber |-> 64, gl |-> 60],
    [key |-> "lentils", cal |-> 1160, protein |-> 90, fat |-> 4, carbs |-> 200, fiber |-> 79, gl |-> 50],
    [key |-> "quinoa", cal |-> 1200, protein |-> 44, fat |-> 19, carbs |-> 210, fiber |-> 28, gl |-> 130],
    [key |-> "hummus", cal |-> 1660, protein |-> 79, fat |-> 96, carbs |-> 140, fiber |-> 60, gl |-> 40]
  >>

DEFAULT_NUTRITION ==
  [cal |-> 1500, protein |-> 80, fat |-> 80, carbs |-> 120, fiber |-> 15, gl |-> 100]

nutrition_values(row) ==
  [cal |-> row.cal, protein |-> row.protein, fat |-> row.fat,
   carbs |-> row.carbs, fiber |-> row.fiber, gl |-> row.gl]

\* _lookup that falls through to the last row of the table instead of the
\* default profile
lookup_last_row_as_default(dish_name) ==
  LET db == _load_nutrition_db
      name_lower == str_strip(str_lower(dish_name))
      exact == {i \in 1..Len(db) : db[i].key = name_lower}
      partial == {i \in 1..Len(db) :
                    str_in(db[i].key, name_lower) \/ str_in(name_lower, db[i].key)}
  IN IF exact # {} THEN nutrition_values(db[CHOOSE i \in exact : TRUE])
     ELSE IF partial # {}
     THEN nutrition_values(db[CHOOSE i \in partial : \A j \in partial : i <= j])
     ELSE nutrition_values(db[Len(db)])

\* NutritionAgent._lookup: exact key, else the first key (in table order) that
\* is a substring of the name or has the name as a substring, else the default
_lookup(dish_name) ==
  LET db == _load_nutrition_db
      name_lower == str_strip(str_lower(dish_name))
      exact == {i \in 1..Len(db) : db[i].key = name_lower}
      partial == {i \in 1..Len(db) :
                    str_in(db[i].key, name_lower) \/ str_in(name_lower, db[i].key)}
  IN IF exact # {} THEN nutrition_values(db[CHOOSE i \in exact : TRUE])
     ELSE IF partial # {}
     THEN nutrition_values(db[CHOOSE i \in partial : \A j \in partial : i <= j])
     ELSE DEFAULT_NUTRITION

\* str(self._db): "{'mixed salad': {'cal': 18, 'protein': 1.5, ...}, 'salad': ...}"
db_row_repr(row) ==
  "'" \o row.key \o "': {'cal': " \o str_tenths(row.cal)
      \o ", 'protein': " \o str_tenths(row.protein)
      \o ", 'fat': " \o str_tenths(row.fat)
      \o ", 'carbs': " \o str_tenths(row.carbs)
      \o ", 'fiber': " \o str_tenths(row.fiber)
      \o ", 'gl': " \o str_tenths(row.gl) \o "}"

db_repr ==
  "{" \o str_join(", ", SeqMap(db_row_repr, _load_nutrition_db)) \o "}"

\* the confidence NutritionAgent.process attaches, in hundredths
nutrition_confidence(dish_name) ==
  IF str_in(str_lower(dish_name), db_repr) THEN 90 ELSE 70

\* one iteration of NutritionAgent.process: DetectedDish -> DishWithNutrition
nutrition_of(d) ==
  LET nd == _lookup(d.name)
  IN [name |-> d.name,
      confidence |-> d.confidence,
      estimated_portion_density |-> d.estimated_portion_density,
      cooking_method |-> d.cooking_method,
      cuisine_type |-> d.cuisine_type,
      estimated_grams |-> d.estimated_grams,
      bounding_box |-> d.bounding_box,
      nutrition_per_100g |->
        [calories |-> nd.cal, protein |-> nd.protein, fat |-> nd.fat,
         carbs |-> nd.carbs, fiber |-> nd.fiber, glycemic_load |-> nd.gl,
         confidence |-> nutrition_confidence(d.name)]]

(***************************************************************************)
(* app/agents/stomach.py                                                   *)
(***************************************************************************)
\* _satiety_score with the calories clamped at 1 kcal instead of 10
satiety_score_clamped_at_one(dish) ==
  LET n == dish.nutrition_per_100g
      cal == Max(n.calories, 10)
      num == (4 * n.protein + 6 * n.fiber - n.fat) * cal + 2000000
  IN IF num > 0 THEN <<num, 20 * cal>> ELSE <<0, 1>>

\* StomachPhysicsAgent._satiety_score as the ratio <<num, den>> of
\*   protein*2.0 + fiber*3.0 + 100.0/(cal/100.0) - fat*0.5, floored at 0
_satiety_score(dish) ==
  LET n == dish.nutrition_per_100g
      cal == Max(n.calories, 100)
      \* (2p + 3f)/10 + 100000/cal - fat/20 over the denominator 20*cal
      num == (4 * n.protein + 6 * n.fiber - n.fat) * cal + 2000000
  IN IF num > 0 THEN <<num, 20 * cal>> ELSE <<0, 1>>

\* _digestion_speed with "fast" given on either condition
digestion_speed_fast_on_either(dish) ==
  LET n == dish.nutrition_per_100g
  IN IF n.calories < 600 \/ n.fat < 20 THEN "fast"
     ELSE IF n.fat > 150 THEN "slow"
     ELSE "medium"

\* StomachPhysicsAgent._digestion_speed
_digestion_speed(dish) ==
  LET n == dish.nutrition_per_100g
  IN IF n.calories < 600 /\ n.fat < 20 THEN "fast"
     ELSE IF n.fat > 150 THEN "slow"
     ELSE IF n.fiber > 50 THEN "medium"
     ELSE "medium"

\* _volume_ml with a density floor of 0.1 in place of the substitution by 1.0
volume_ml_density_floor(dish) ==
  (dish.estimated_grams * 1000) \div Max(dish.estimated_portion_density, 1)

\* StomachPhysicsAgent._volume_ml, in thousandths of a ml
_volume_ml(dish) ==
  LET density == IF dish.estimated_portion_density = 0 THEN 10
                 ELSE dish.estimated_portion_density
  IN (dish.estimated_grams * 1000) \div density

\* the iteration with the density that _volume_ml used ("density or 1.0")
\* written back to the dish
stomach_impact_density_written_back(d) ==
  LET vol == _volume_ml(d)
      satiety == _satiety_score(d)
      speed == _digestion_speed(d)
  IN [name |-> d.name,
      confidence |-> d.confidence,
      estimated_portion_density |->
        IF d.estimated_portion_density = 0 THEN 10 ELSE d.estimated_portion_density,
      cooking_method |-> d.cooking_method,
      cuisine_type |-> d.cuisine_type,
      estimated_grams |-> d.estimated_grams,
      bounding_box |-> d.bounding_box,
      nutrition_per_100g |-> d.nutrition_per_100g,
      stomach_impact |->
        [volume_ml |-> vol,
         satiety_score |-> pyround(100 * satiety[1], satiety[2]),
         digestion_speed |-> speed]]

\* one iteration of StomachPhysicsAgent.process.  fullness_contribution, which
\* no later stage reads and which is a function of the fields kept here, is
\* left out of StomachImpact.
stomach_impact_of(d) ==
  LET vol == _volume_ml(d)
      satiety == _satiety_score(d)
      speed == _digestion_speed(d)
  IN [name |-> d.name,
      confidence |-> d.confidence,
      estimated_portion_density |-> d.estimated_portion_density,
      cooking_method |-> d.cooking_method,
      cuisine_type |-> d.cuisine_type,
      estimated_grams |-> d.estimated_grams,
      bounding_box |-> d.bounding_box,
      nutrition_per_100g |-> d.nutrition_per_100g,
      stomach_impact |->
        [volume_ml |-> vol,
         satiety_score |-> pyround(100 * satiety[1], satiety[2]),
         digestion_speed |-> speed]]

(***************************************************************************)
(* app/agents/optimization.py                                              *)
(***************************************************************************)
\* "calorie_limit or settings.DEFAULT_CALORIE_LIMIT" on an Optional[int]:
\* None and 0 are both falsy
calorie_limit_or_default(calorie_limit) ==
  IF calorie_limit = {} \/ calorie_limit = {0} THEN DEFAULT_CALORIE_LIMIT
  ELSE CHOOSE c \in calorie_limit : TRUE

\* _goal_reward with the fat_loss term "- n.calories / 50" left out
goal_reward_no_calorie_penalty(dish, goal_tag) ==
  LET n == dish.nutrition_per_100g
      g == dish.estimated_grams
      sat == dish.stomach_impact.satiety_score
  IN IF goal_tag = "fat_loss"
     THEN (100 * n.protein + 100 * n.fiber) * g
     ELSE IF goal_tag = "muscle_gain"
     THEN 25 * (6 * n.protein + n.carbs) * g
     ELSE IF goal_tag = "blood_sugar"
     THEN 50 * (100 - n.glycemic_load + 2 * n.fiber) * g
     ELSE 5 * (sat + 5 * n.protein) * g

\* GoalOptimizationAgent._goal_reward, in units of 1/500000
_goal_reward(dish, goal_tag) ==
  LET n == dish.nutrition_per_100g
      g == dish.estimated_grams
      sat == dish.stomach_impact.satiety_score
  IN IF goal_tag = "fat_loss"
     THEN (100 * n.protein + 100 * n.fiber - n.calories) * g
     ELSE IF goal_tag = "muscle_gain"
     THEN 25 * (6 * n.protein + n.carbs) * g
     ELSE IF goal_tag = "blood_sugar"
     THEN 50 * (100 - n.glycemic_load + 2 * n.fiber) * g
     ELSE 5 * (sat + 5 * n.protein) * g

\* any(kw in name_lower for kw in keywords)
any_keyword_in(keywords, name_lower) ==
  \E kw \in keywords : str_in(kw, name_lower)

\* _filter_allergies with the dish name left in its own case
filter_allergies_case_sensitive(ds, allergy_list) ==
  IF allergy_list = <<>> THEN ds
  ELSE LET allergen_keywords == {str_lower(allergy_list[i]) : i \in 1..Len(allergy_list)}
       IN SelectSeq(ds, LAMBDA d : ~any_keyword_in(allergen_keywords, d.name))

\* GoalOptimizationAgent._filter_allergies
_filter_allergies(ds, allergy_list) ==
  IF allergy_list = <<>> THEN ds
  ELSE LET allergen_keywords == {str_lower(allergy_list[i]) : i \in 1..Len(allergy_list)}
       IN SelectSeq(ds, LAMBDA d : ~any_keyword_in(allergen_keywords, str_lower(d.name)))

non_vegan == {"chicken", "meat", "fish", "salmon", "steak", "eggs", "cheese"}

non_veg == {"chicken", "meat", "fish", "salmon", "steak", "hot dog"}

\* _filter_dietary with the vegetarian rule tried before the vegan one
filter_dietary_vegetarian_first(ds, filters) ==
  IF filters = <<>> THEN ds
  ELSE LET filter_lower == {str_lower(filters[i]) : i \in 1..Len(filters)}
       IN IF "vegetarian" \in filter_lower
          THEN SelectSeq(ds, LAMBDA d : ~any_keyword_in(non_veg, str_lower(d.name)))
          ELSE IF "vegan" \in filter_lower
          THEN SelectSeq(ds, LAMBDA d : ~any_keyword_in(non_vegan, str_lower(d.name)))
          ELSE ds

\* GoalOptimizationAgent._filter_dietary
_filter_dietary(ds, filters) ==
  IF filters = <<>> THEN ds
  ELSE LET filter_lower == {str_lower(filters[i]) : i \in 1..Len(filters)}
       IN IF "vegan" \in filter_lower
          THEN SelectSeq(ds, LAMBDA d : ~any_keyword_in(non_vegan, str_lower(d.name)))
          ELSE IF "vegetarian" \in filter_lower
          THEN SelectSeq(ds, LAMBDA d : ~any_keyword_in(non_veg, str_lower(d.name)))
          ELSE ds

\* list.sort(key=...) : stable, ascending in key; keys[i] is the key of xs[i]
stable_sort(xs, keys) ==
  LET rank(i) == Cardinality({j \in 1..Len(xs) : keys[j] < keys[i]})
                 + Cardinality({j \in 1..(i - 1) : keys[j] = keys[i]}) + 1
  IN [k \in 1..Len(xs) |-> xs[CHOOSE i \in 1..Len(xs) : rank(i) = k]]

\* the scored list left in the order of the filtered list
score_without_sort(ds, goal_tag) ==
  [i \in 1..Len(ds) |-> [score |-> _goal_reward(ds[i], goal_tag), d |-> ds[i]]]

\* scored = [(reward, d) ...]; scored.sort(key=lambda x: -x[0])
score_and_sort(ds, goal_tag) ==
  LET pairs == [i \in 1..Len(ds) |-> [score |-> _goal_reward(ds[i], goal_tag), d |-> ds[i]]]
  IN stable_sort(pairs, [i \in 1..Len(ds) |-> 0 - pairs[i].score])

\* calories of the whole dish, in units of 1/10000 kcal
dish_cal(d) == d.nutrition_per_100g.calories * d.estimated_grams

\* the greedy test with the volume bound forgotten
greedy_fits_calories_only(tot_cal, tot_vol, d, limit, capacity_ml) ==
  tot_cal + dish_cal(d) <= limit * 10000

\* a greedy test that checks the volume and not the calories
greedy_fits_volume_only(tot_cal, tot_vol, d, limit, capacity_ml) ==
  (tot_vol + d.stomach_impact.volume_ml) * 10 <= capacity_ml * 1000 * 11

\* the test of the greedy loop:
\*   total_cal + cal <= self.calorie_limit and
\*   total_vol + vol <= self.stomach_capacity_ml * 1.1
greedy_fits(tot_cal, tot_vol, d, limit, capacity_ml) ==
  /\ tot_cal + dish_cal(d) <= limit * 10000
  /\ (tot_vol + d.stomach_impact.volume_ml) * 10 <= capacity_ml * 1000 * 11

\* skip = [d for d in dishes if d not in selected]
skip_of(ds, sel) == SelectSeq(ds, LAMBDA d : ~SeqIn(d, sel))

(***************************************************************************)
(* app/agents/strategy.py                                                  *)
(***************************************************************************)
\* _classify_phase with the protein rule tried before the starter rule
classify_phase_protein_first(dish) ==
  LET n == dish.nutrition_per_100g
      name_lower == str_lower(dish.name)
  IN IF \/ n.protein > 150
        \/ any_keyword_in({"chicken", "fish", "steak", "salmon", "meat", "eggs"}, name_lower)
     THEN "protein"
     ELSE IF any_keyword_in({"soup", "salad", "broth", "consomme"}, name_lower)
     THEN "starter"
     ELSE IF any_keyword_in({"dessert", "cake", "donut", "cookie", "pastry"}, name_lower)
     THEN "treats"
     ELSE IF any_keyword_in({"rice", "pasta", "bread", "potato", "quinoa", "beans"}, name_lower)
     THEN "carbs"
     ELSE IF any_keyword_in({"vegetable", "broccoli", "carrot"}, name_lower)
     THEN "vegetables"
     ELSE IF n.protein > 100 THEN "protein"
     ELSE IF n.carbs > 200 THEN "carbs"
     ELSE "vegetables"

\* StrategyPlanningAgent._classify_phase
_classify_phase(dish) ==
  LET n == dish.nutrition_per_100g
      name_lower == str_lower(dish.name)
  IN IF any_keyword_in({"soup", "salad", "broth", "consomme"}, name_lower)
     THEN "starter"
     ELSE IF \/ n.protein > 150
             \/ any_keyword_in({"chicken", "fish", "steak", "salmon", "meat", "eggs"}, name_lower)
     THEN "protein"
     ELSE IF any_keyword_in({"dessert", "cake", "donut", "cookie", "pastry"}, name_lower)
     THEN "treats"
     ELSE IF any_keyword_in({"rice", "pasta", "bread", "potato", "quinoa", "beans"}, name_lower)
     THEN "carbs"
     ELSE IF any_keyword_in({"vegetable", "broccoli", "carrot"}, name_lower)
     THEN "vegetables"
     ELSE IF n.protein > 100 THEN "protein"
     ELSE IF n.carbs > 200 THEN "carbs"
     ELSE "vegetables"

\* _phase_order with carbs given the rank of vegetables
phase_order_carbs_as_vegetables(phase_name) ==
  CASE phase_name = "starter" -> 1
    [] phase_name = "protein" -> 2
    [] phase_name = "vegetables" -> 3
    [] phase_name = "carbs" -> 3
    [] phase_name = "treats" -> 5
    [] OTHER -> 3

\* StrategyPlanningAgent._phase_order
_phase_order(phase_name) ==
  CASE phase_name = "starter" -> 1
    [] phase_name = "protein" -> 2
    [] phase_name = "vegetables" -> 3
    [] phase_name = "carbs" -> 4
    [] phase_name = "treats" -> 5
    [] OTHER -> 3

\* repr of a float given in tenths: 31.0, 1.5
str_float(v) == str_int(v \div 10) \o "." \o str_int(v % 10)

\* the reason _compute_portion attaches
portion_reason(dish) ==
  LET n == dish.nutrition_per_100g
  IN IF str_in("soup", str_lower(dish.name)) \/ str_in("salad", str_lower(dish.name))
     THEN "Volume-fill to increase satiety with low calories"
     ELSE IF n.protein > 150
     THEN "High protein (" \o str_float(n.protein) \o "g/100g) for satiety"
     ELSE IF n.glycemic_load < 50
     THEN "Low glycemic load (" \o str_float(n.glycemic_load) \o ") for blood sugar"
     ELSE "Balanced portion for variety"

\* _compute_portion without the 250 g ceiling
compute_portion_no_ceiling(dish, cal_remaining, vol_remaining) ==
  LET n == dish.nutrition_per_100g
      cal_per_100 == n.calories
      grams == dish.estimated_grams
      vol == dish.stomach_impact.volume_ml
      vol_per_100 == IF grams # 0 THEN ratio(vol, grams) ELSE <<100, 1>>
      max_by_cal == IF cal_per_100 > 0 THEN ratio(100 * cal_remaining, cal_per_100)
                    ELSE <<500, 1>>
      max_by_vol == IF vol_per_100[1] > 0
                    THEN ratio(10 * vol_remaining * vol_per_100[2], vol_per_100[1])
                    ELSE <<500, 1>>
      capped == ratio_min(ratio_min(ratio(grams, 10), max_by_cal), max_by_vol)
  IN Max(20, pyround(capped[1], capped[2]))

\* _compute_portion with the remaining stomach volume left out of the minimum
compute_portion_ignores_volume(dish, cal_remaining, vol_remaining) ==
  LET n == dish.nutrition_per_100g
      cal_per_100 == n.calories
      grams == dish.estimated_grams
      max_by_cal == IF cal_per_100 > 0 THEN ratio(100 * cal_remaining, cal_per_100)
                    ELSE <<500, 1>>
      capped == ratio_min(ratio_min(ratio(grams, 10), max_by_cal), <<250, 1>>)
  IN Max(20, pyround(capped[1], capped[2]))

\* StrategyPlanningAgent._compute_portion, the portion in whole grams.
\* cal_remaining and vol_remaining are in tenths (kcal, ml).
_compute_portion(dish, cal_remaining, vol_remaining) ==
  LET n == dish.nutrition_per_100g
      cal_per_100 == n.calories
      grams == dish.estimated_grams
      vol == dish.stomach_impact.volume_ml
      \* vol_per_100 = volume_ml / (grams / 100), or 100 for a zero mass
      vol_per_100 == IF grams # 0 THEN ratio(vol, grams) ELSE <<100, 1>>
      max_by_cal == IF cal_per_100 > 0 THEN ratio(100 * cal_remaining, cal_per_100)
                    ELSE <<500, 1>>
      max_by_vol == IF vol_per_100[1] > 0
                    THEN ratio(10 * vol_remaining * vol_per_100[2], vol_per_100[1])
                    ELSE <<500, 1>>
      capped == ratio_min(ratio_min(ratio_min(ratio(grams, 10), max_by_cal), max_by_vol),
                          <<250, 1>>)
  IN Max(20, pyround(capped[1], capped[2]))

SKIP_REASON == "Lower priority for goal or exceeded volume/calorie limit"

FALLBACK_EXPLANATION == "Follow the phases in order for optimal satiety and nutrition."

goal_hint(goal_tag) ==
  CASE goal_tag = "fat_loss" ->
         "Strategy favors high-protein, high-fiber, low-calorie-density items."
    [] goal_tag = "muscle_gain" ->
         "Strategy prioritizes protein and moderate carbs for recovery."
    [] goal_tag = "blood_sugar" ->
         "Strategy selects low-glycemic items and pairs carbs with fiber."
    [] goal_tag = "enjoyment_first" ->
         "Strategy balances satiety with variety for maximum enjoyment."
    [] OTHER -> ""

item_names(items) == [i \in 1..Len(items) |-> items[i].dish_name]

dish_names(ds) == [i \in 1..Len(ds) |-> ds[i].name]

\* "".join(parts)
RECURSIVE str_concat(_)
str_concat(parts) == IF parts = <<>> THEN "" ELSE Head(parts) \o str_concat(Tail(parts))

\* the "Add ... for energy and fiber. " sentences, one per carbs/vegetables phase
RECURSIVE carb_parts(_)
carb_parts(ps) ==
  IF ps = <<>> THEN <<>>
  ELSE (IF Head(ps).items # <<>>
        THEN <<"Add " \o str_join(", ", item_names(Head(ps).items))
                 \o " for energy and fiber. ">>
        ELSE <<>>) \o carb_parts(Tail(ps))

\* StrategyPlanningAgent._generate_explanation
_generate_explanation(phase_list, goal_tag, skip_dishes) ==
  LET named(kw) == SelectSeq(phase_list, LAMBDA p : str_in(kw, str_lower(p.phase_name)))
      starter_items == named("starter")
      protein_items == named("protein")
      carb_items == SelectSeq(phase_list,
                      LAMBDA p : \/ str_in("carbs", str_lower(p.phase_name))
                                 \/ str_in("vegetable", str_lower(p.phase_name)))
      treat_items == named("treat")
      parts ==
        (IF starter_items # <<>> /\ starter_items[1].items # <<>>
         THEN <<"Start with soup or salad to fill volume cheaply (low calories, high satiety). ">>
         ELSE <<>>)
        \o (IF protein_items # <<>> /\ protein_items[1].items # <<>>
            THEN <<"Then prioritize protein ("
                     \o str_join(", ", item_names(protein_items[1].items))
                     \o ") for satiety and muscle support. ">>
            ELSE <<>>)
        \o carb_parts(carb_items)
        \o (IF treat_items # <<>> /\ treat_items[1].items # <<>>
            \* the source has an em dash where the model has "-"
            THEN <<"Save dessert for last-your stomach will be fuller, so you'll eat less. ">>
            ELSE <<>>)
        \o (IF skip_dishes # <<>>
            THEN <<"Skip or minimize: "
                     \o str_join(", ", dish_names(SubSeq(skip_dishes, 1, Min(5, Len(skip_dishes)))))
                     \o ". ">>
            ELSE <<>>)
        \o (IF goal_hint(goal_tag) # "" THEN <<goal_hint(goal_tag)>> ELSE <<>>)
      joined == str_strip(str_concat(parts))
  IN IF joined # "" THEN joined ELSE FALLBACK_EXPLANATION

(***************************************************************************)
(* app/agents/pipeline.py : the response                                   *)
(***************************************************************************)
\* _empty_response with the confidence left at 1.0
empty_response_full_confidence(msg) ==
  [detected_dishes |-> <<>>,
   nutrition_summary |-> "{}",
   stomach_simulation |-> "{}",
   strategy |-> [phases |-> <<>>, skip |-> <<>>, total_calories |-> 0, fullness_score |-> 0],
   explanation |-> msg,
   confidence_overall |-> 100]

\* _empty_response
_empty_response(msg) ==
  [detected_dishes |-> <<>>,
   nutrition_summary |-> "{}",
   stomach_simulation |-> "{}",
   strategy |-> [phases |-> <<>>, skip |-> <<>>, total_calories |-> 0, fullness_score |-> 0],
   explanation |-> msg,
   confidence_overall |-> 0]

\* _build_nutrition_summary, the totals in tenths
_build_nutrition_summary(ds) ==
  LET total(field(_)) ==
        pyround(SeqSum([i \in 1..Len(ds) |-> field(ds[i].nutrition_per_100g) * ds[i].estimated_grams]),
                1000)
  IN [total_available_calories |-> total(LAMBDA n : n.calories),
      total_protein_g |-> total(LAMBDA n : n.protein),
      total_fat_g |-> total(LAMBDA n : n.fat),
      total_carbs_g |-> total(LAMBDA n : n.carbs),
      total_fiber_g |-> total(LAMBDA n : n.fiber),
      total_glycemic_load |-> total(LAMBDA n : n.glycemic_load),
      dish_count |-> Len(ds)]

\* _build_stomach_simulation
_build_stomach_simulation(ds, sel) ==
  LET volumes(xs) == SeqSum([i \in 1..Len(xs) |-> xs[i].stomach_impact.volume_ml])
      speed_count(s) == Cardinality({i \in 1..Len(sel) : sel[i].stomach_impact.digestion_speed = s})
  IN [total_volume_ml |-> pyround(volumes(ds), 100),
      selected_volume_ml |-> pyround(volumes(sel), 100),
      capacity_ml |-> 1350,
      avg_satiety_score |->
        IF sel # <<>>
        THEN pyround(SeqSum([i \in 1..Len(sel) |-> sel[i].stomach_impact.satiety_score]), Len(sel))
        ELSE 0,
      digestion_profiles |->
        [fast |-> speed_count("fast"), medium |-> speed_count("medium"), slow |-> speed_count("slow")]]

(***************************************************************************)
(* Inputs                                                                  *)
(***************************************************************************)
\* longest dish list a request carries
MaxDishes == 2

DetectedDish(name, confidence, density, grams) ==
  [name |-> name,
   confidence |-> confidence,
   estimated_portion_density |-> density,
   cooking_method |-> "None",
   cuisine_type |-> "None",
   estimated_grams |-> grams,
   bounding_box |-> "None"]

\* the dishes the detector may report: the first three are dishes of
\* VisionAgent._fallback_detection; the others bring the names the dietary
\* filters know, a zero density, a mass below the 20 g floor, an 800 g
\* bowl that fills more than half the stomach, and an unknown name
Catalogue ==
  { DetectedDish("Mixed Salad", 70, 10, 800),
    DetectedDish("Grilled Chicken", 70, 10, 1500),
    DetectedDish("Dessert", 60, 10, 800),
    DetectedDish("Eggs", 90, 10, 1000),
    DetectedDish("Cheese", 90, 0, 1000),
    DetectedDish("Carrot", 90, 10, 100),
    DetectedDish("Soup", 70, 10, 8000),
    DetectedDish("xyzfood123", 50, 10, 3000) }

\* dishes handed to StrategyPlanningAgent.process directly: also a fractional
\* mass, a zero mass and a broth at 0.1 g/ml, larger than the stomach
PlannerCatalogue ==
  Catalogue \cup { DetectedDish("Rice", 90, 10, 206),
                   DetectedDish("Bread", 90, 10, 0),
                   DetectedDish("Broth", 70, 1, 3000) }

\* all lists over S of length at most n
RECURSIVE ListsUpTo(_, _)
ListsUpTo(S, n) ==
  IF n = 0 THEN {<<>>}
  ELSE LET shorter == ListsUpTo(S, n - 1)
       IN shorter \cup {Append(l, x) : l \in shorter, x \in S}

DishLists == ListsUpTo(Catalogue, MaxDishes)

Goals == {"fat_loss", "muscle_gain", "blood_sugar", "enjoyment_first", "keto"}

\* longest selected list handed to StrategyPlanningAgent.process directly
MaxSelected == 2

\* the calorie_limit argument of a direct call
PlannerLimits == {0, 100, 2000}

\* Optional[int]: None is {}
CalorieLimits == {{}, {0}, {300}}

AllergyLists == {<<>>, <<"Chicken", "egg">>}

DietaryLists == {<<>>, <<"vegan">>, <<"Vegetarian">>, <<"vegetarian", "VEGAN">>}

\* the dishes as VisionAgent._fallback_detection spells them, and lower-cased
ScenarioDishes ==
  { {DetectedDish("Mixed Salad", 70, 10, 800),
     DetectedDish("Grilled Chicken", 70, 10, 1500),
     DetectedDish("Dessert", 60, 10, 800)},
    {DetectedDish("mixed salad", 70, 10, 800),
     DetectedDish("grilled chicken", 70, 10, 1500),
     DetectedDish("dessert", 60, 10, 800)} }

\* a buffet of whole-number masses whose densities are not all 1.0: the
\* volumes are 28.75, 28.75, 1250, 17.5, 100, 40 and 20 ml, 1485 ml together
DensityBuffet ==
  << DetectedDish("Carrot", 70, 8, 230),
     DetectedDish("Mixed Salad", 70, 8, 230),
     DetectedDish("Grilled Chicken", 70, 2, 2500),
     DetectedDish("Eggs", 90, 20, 350),
     DetectedDish("Rice", 90, 2, 200),
     DetectedDish("Bread", 90, 5, 200),
     DetectedDish("Dessert", 60, 10, 200) >>

DensityDishes == {DensityBuffet[i] : i \in 1..Len(DensityBuffet)}

\* dishes for the dietary filters: a name of the non_veg set alone, two names
\* of the non_vegan set alone, a name of both and a name of neither
DietaryCatalogue ==
  { DetectedDish("Hot Dog", 90, 10, 1000),
    DetectedDish("Eggs", 90, 10, 1000),
    DetectedDish("Cheese", 90, 0, 1000),
    DetectedDish("Grilled Chicken", 70, 10, 1500),
    DetectedDish("Mixed Salad", 70, 10, 800) }

\* a DishWithNutrition; the nutrition values in tenths
DishWithNutrition(density, grams, calories, protein, fat, fiber) ==
  [name |-> "Item",
   confidence |-> 90,
   estimated_portion_density |-> density,
   cooking_method |-> "None",
   cuisine_type |-> "None",
   estimated_grams |-> grams,
   bounding_box |-> "None",
   nutrition_per_100g |->
     [calories |-> calories, protein |-> protein, fat |-> fat,
      carbs |-> 100, fiber |-> fiber, glycemic_load |-> 50,
      confidence |-> 90]]

\* densities in tenths of g/ml (0, 0.5, 1.0, 2.5) and masses in tenths of a
\* gram (0, 20.6, 150): every quotient mass/density is a whole number of
\* thousandths of a ml
ItemDensities == {0, 5, 10, 25}

ItemMasses == {0, 206, 1500}

\* calories around the 10 kcal clamp and the 60 kcal rule, fat around the
\* 2 g and 15 g rules and pure fat, fiber around the 5 g rule
ItemCalories == {0, 50, 100, 599, 600, 9000}

ItemProtein == {0, 310}

ItemFat == {0, 19, 20, 150, 151, 1000}

ItemFiber == {0, 51}

\* the items StomachPhysicsAgent.process is called on directly
StomachItems ==
  {DishWithNutrition(density, grams, calories, protein, fat, fiber) :
     density \in ItemDensities, grams \in ItemMasses, calories \in ItemCalories,
     protein \in ItemProtein, fat \in ItemFat, fiber \in ItemFiber}

\* names for _classify_phase: one or two keywords of every rule, names with
\* keywords of two rules, an upper-case name, a name that only resembles a
\* keyword and a name without any
ClassifyNames ==
  {"Soup", "SOUP", "Broth", "Beef Consomme", "Chicken Salad", "Grilled Chicken",
   "Steak", "Salmon", "Meatballs", "Eggs", "Egg", "Fish Cake", "Dessert", "Rice Cake",
   "Carrot Cake", "Donut", "Cookie", "Pastry", "Rice", "Pasta", "Bread", "Potato",
   "Quinoa", "Beans", "Vegetable Rice", "Broccoli", "Carrot", "Tofu"}

\* protein around the 10 g and 15 g rules, carbs around the 20 g rule (tenths)
ClassifyProtein == {100, 101, 150, 151}

ClassifyCarbs == {200, 201}

\* a DishWithNutrition of 100 g with that name, protein and carbs
NamedItem(name, protein, carbs) ==
  [name |-> name,
   confidence |-> 90,
   estimated_portion_density |-> 10,
   cooking_method |-> "None",
   cuisine_type |-> "None",
   estimated_grams |-> 1000,
   bounding_box |-> "None",
   nutrition_per_100g |->
     [calories |-> 1000, protein |-> protein, fat |-> 50,
      carbs |-> carbs, fiber |-> 10, glycemic_load |-> 50,
      confidence |-> 90]]

ClassifyItems ==
  {NamedItem(name, protein, carbs) :
     name \in ClassifyNames, protein \in ClassifyProtein, carbs \in ClassifyCarbs}

\* every dish a request or a direct call carries
DetectedDishes ==
  PlannerCatalogue \cup UNION ScenarioDishes \cup DensityDishes \cup DietaryCatalogue

\* NutritionAgent.process and StomachPhysicsAgent.process on one dish.  Both
\* are functions of the dish alone, so each is tabulated once over the dishes
\* the specifications use.
NutritionTable == [d \in DetectedDishes |-> nutrition_of(d)]

with_nutrition_of(d) == NutritionTable[d]

StomachTable ==
  [d \in {NutritionTable[c] : c \in DetectedDishes} \cup StomachItems \cup ClassifyItems
     |-> stomach_impact_of(d)]

with_stomach_of(d) == StomachTable[d]

\* the dishes as StomachPhysicsAgent hands them on
Enriched == {with_stomach_of(with_nutrition_of(d)) : d \in PlannerCatalogue}

EnrichedScenario == {with_stomach_of(with_nutrition_of(d)) : d \in UNION ScenarioDishes}

EnrichedClassify == {with_stomach_of(d) : d \in ClassifyItems}

\* every dish StomachPhysicsAgent hands on, a selected list holds some of them
EnrichedDishes == {StomachTable[d] : d \in DOMAIN StomachTable}

\* _classify_phase, the reason of _compute_portion and the phase title are
\* functions of the dish (of the phase) alone: tabulated once as well
PhaseTable == [d \in EnrichedDishes |-> _classify_phase(d)]

ReasonTable == [d \in EnrichedDishes |-> portion_reason(d)]

PhaseNames == {"starter", "protein", "vegetables", "carbs", "treats"}

TitleTable == [p \in PhaseNames |-> str_title(str_replace(p, "_", " "))]

\* the PhaseItem built for a dish at a portion
phase_item(dish, portion) ==
  LET n == dish.nutrition_per_100g
  IN [dish_name |-> dish.name,
      portion_grams |-> portion,
      portion_ml |-> IF dish.estimated_grams # 0
                     THEN {pyround(dish.stomach_impact.volume_ml * portion,
                                   10 * dish.estimated_grams)}
                     ELSE {},
      calories |-> pyround(n.calories * portion, 100),
      protein |-> pyround(n.protein * portion, 100),
      carbs |-> pyround(n.carbs * portion, 100),
      fat |-> pyround(n.fat * portion, 100),
      reason |-> ReasonTable[dish]]

\* "item.portion_ml or (portion * 1.0)", in tenths of a ml
portion_ml_or_grams(item) ==
  IF item.portion_ml = {} \/ item.portion_ml = {0} THEN 10 * item.portion_grams
  ELSE CHOOSE v \in item.portion_ml : TRUE

\* the grouping with "phase_groups[phase] = [d]" in place of setdefault/append
RECURSIVE group_phases_overwrite(_, _)
group_phases_overwrite(groups, sel) ==
  IF sel = <<>> THEN groups
  ELSE LET d == Head(sel)
           phase == PhaseTable[d]
           at == {i \in 1..Len(groups) : groups[i].phase = phase}
       IN IF at = {}
          THEN group_phases_overwrite(Append(groups, [phase |-> phase, dishes |-> <<d>>]), Tail(sel))
          ELSE LET i == CHOOSE i \in at : TRUE
               IN group_phases_overwrite([groups EXCEPT ![i].dishes = <<d>>], Tail(sel))

\* a grouping that puts each dish in front of the dishes of its phase
RECURSIVE group_phases_prepend(_, _)
group_phases_prepend(groups, sel) ==
  IF sel = <<>> THEN groups
  ELSE LET d == Head(sel)
           phase == PhaseTable[d]
           at == {i \in 1..Len(groups) : groups[i].phase = phase}
       IN IF at = {}
          THEN group_phases_prepend(Append(groups, [phase |-> phase, dishes |-> <<d>>]), Tail(sel))
          ELSE LET i == CHOOSE i \in at : TRUE
               IN group_phases_prepend([groups EXCEPT ![i].dishes = <<d>> \o @], Tail(sel))

\* phase_groups.setdefault(phase, []).append(d) for every selected dish: the
\* dict as a sequence of [phase, dishes] in insertion order
RECURSIVE group_phases(_, _)
group_phases(groups, sel) ==
  IF sel = <<>> THEN groups
  ELSE LET d == Head(sel)
           phase == PhaseTable[d]
           at == {i \in 1..Len(groups) : groups[i].phase = phase}
       IN IF at = {}
          THEN group_phases(Append(groups, [phase |-> phase, dishes |-> <<d>>]), Tail(sel))
          ELSE LET i == CHOOSE i \in at : TRUE
               IN group_phases([groups EXCEPT ![i].dishes = Append(@, d)], Tail(sel))

\* sorted(phase_groups.keys(), key=self._phase_order), with each key's dishes
sorted_groups(groups) ==
  stable_sort(groups, [i \in 1..Len(groups) |-> _phase_order(groups[i].phase)])

(***************************************************************************)
(* State                                                                   *)
(***************************************************************************)
VARIABLES
  pc,                \* where the call stands
  detected_dishes, goal, calorie_limit, allergies, dietary_filters,
  with_nutrition,    \* NutritionAgent.process result
  with_stomach,      \* StomachPhysicsAgent.process result
  opt_calorie_limit, \* GoalOptimizationAgent.calorie_limit
  dishes,            \* the filtered list inside GoalOptimizationAgent.process
  scored, opt_i,     \* the sorted (score, dish) list and the loop position
  selected, total_cal, total_vol, skip,
  plan_calorie_limit,\* calorie_limit argument of StrategyPlanningAgent.process
  groups, plan_p, plan_d, \* phase groups in phase order and the loop position
  items, phases, total_calories, stomach_used_ml,
  strategy, explanation,
  response,
  call,              \* which call of _run_rest_of_pipeline this is
  first_result       \* what the first call returned, once a second one runs

request == <<detected_dishes, goal, calorie_limit, allergies, dietary_filters>>

stage_vars == <<with_nutrition, with_stomach>>

opt_vars == <<opt_calorie_limit, dishes, scored, opt_i, selected, total_cal, total_vol, skip>>

plan_vars == <<plan_calorie_limit, groups, plan_p, plan_d, items, phases,
               total_calories, stomach_used_ml, strategy, explanation>>

calls == <<call, first_result>>

vars == <<pc, request, stage_vars, opt_vars, plan_vars, response, calls>>

NoStrategy == [phases |-> <<>>]

\* a request arrives at _run_rest_of_pipeline
Init ==
  /\ pc = "entry"
  /\ detected_dishes \in DishLists
  /\ goal \in Goals
  /\ calorie_limit \in CalorieLimits
  /\ allergies \in AllergyLists
  /\ dietary_filters \in DietaryLists
  /\ with_nutrition = <<>> /\ with_stomach = <<>>
  /\ opt_calorie_limit = 0 /\ dishes = <<>> /\ scored = <<>> /\ opt_i = 0
  /\ selected = <<>> /\ total_cal = 0 /\ total_vol = 0 /\ skip = <<>>
  /\ plan_calorie_limit = 0 /\ groups = <<>> /\ plan_p = 0 /\ plan_d = 0
  /\ items = <<>> /\ phases = <<>> /\ total_calories = 0 /\ stomach_used_ml = 0
  /\ strategy = NoStrategy /\ explanation = ""
  /\ response = "None"
  /\ call = "first" /\ first_result = "None"

(***************************************************************************)
(* _run_rest_of_pipeline, stage by stage                                   *)
(***************************************************************************)
\* pipeline.py 81-82: no dishes, the fixed response
EmptyResponse ==
  /\ pc = "entry" /\ detected_dishes = <<>>
  /\ response' = _empty_response("No dishes detected.")
  /\ pc' = "done"
  /\ UNCHANGED <<calls, request, stage_vars, opt_vars, plan_vars>>

\* NutritionAgent.process
NutritionAgent_process ==
  /\ pc = "entry" /\ detected_dishes # <<>>
  /\ with_nutrition' = SeqMap(with_nutrition_of, detected_dishes)
  /\ pc' = "stomach"
  /\ UNCHANGED <<calls, request, with_stomach, opt_vars, plan_vars, response>>

\* StomachPhysicsAgent.process
StomachPhysicsAgent_process ==
  /\ pc = "stomach"
  /\ with_stomach' = SeqMap(with_stomach_of, with_nutrition)
  /\ pc' = "optimize"
  /\ UNCHANGED <<calls, request, with_nutrition, opt_vars, plan_vars, response>>

\* GoalOptimizationAgent(...) and process up to the greedy loop: the filters,
\* the early return on an empty list, the scoring and the sort
GoalOptimizationAgent_begin ==
  /\ pc = "optimize"
  /\ opt_calorie_limit' =
       calorie_limit_or_default({calorie_limit_or_default(calorie_limit)})
  /\ dishes' = _filter_dietary(_filter_allergies(with_stomach, allergies), dietary_filters)
  /\ selected' = <<>> /\ total_cal' = 0 /\ total_vol' = 0 /\ skip' = <<>>
  /\ IF dishes' = <<>>
     THEN /\ scored' = <<>> /\ opt_i' = 0
          /\ plan_calorie_limit' = calorie_limit_or_default(calorie_limit)
          /\ pc' = "strategy"
     ELSE /\ scored' = score_and_sort(dishes', goal)
          /\ opt_i' = 1
          /\ UNCHANGED plan_calorie_limit
          /\ pc' = "greedy"
  /\ UNCHANGED <<calls, request, stage_vars, groups, plan_p, plan_d, items, phases,
                 total_calories, stomach_used_ml, strategy, explanation, response>>

\* one iteration of "for _, d in scored"
GoalOptimizationAgent_greedy ==
  /\ pc = "greedy" /\ opt_i <= Len(scored)
  /\ LET d == scored[opt_i].d
     IN IF greedy_fits(total_cal, total_vol, d, opt_calorie_limit, STOMACH_CAPACITY_ML)
        THEN /\ selected' = Append(selected, d)
             /\ total_cal' = total_cal + dish_cal(d)
             /\ total_vol' = total_vol + d.stomach_impact.volume_ml
        ELSE UNCHANGED <<selected, total_cal, total_vol>>
  /\ opt_i' = opt_i + 1
  /\ UNCHANGED <<pc, calls, request, stage_vars, opt_calorie_limit, dishes, scored, skip,
                 plan_vars, response>>

\* the end of process: the skip list, and the call of the planner
GoalOptimizationAgent_return ==
  /\ pc = "greedy" /\ opt_i > Len(scored)
  /\ skip' = skip_of(dishes, selected)
  /\ plan_calorie_limit' = calorie_limit_or_default(calorie_limit)
  /\ pc' = "strategy"
  /\ UNCHANGED <<calls, request, stage_vars, opt_calorie_limit, dishes, scored, opt_i,
                 selected, total_cal, total_vol, groups, plan_p, plan_d, items, phases,
                 total_calories, stomach_used_ml, strategy, explanation, response>>

\* round(stomach_used_ml / stomach_capacity, 2) without the clamp at 1.0
fullness_score_unclamped(used_ml) == pyround(10 * used_ml, STOMACH_CAPACITY_ML)

\* strategy.py 162 and 173: round(min(1.0, stomach_used_ml / stomach_capacity), 2),
\* in hundredths; used_ml in tenths of a ml
fullness_score(used_ml) ==
  IF used_ml >= 10 * STOMACH_CAPACITY_ML THEN 100
  ELSE pyround(10 * used_ml, STOMACH_CAPACITY_ML)

(***************************************************************************)
(* StrategyPlanningAgent.process                                           *)
(***************************************************************************)
\* the start of process with total_calories and stomach_used_ml kept from
\* the call before, as counters of the module would be
StrategyPlanningAgent_begin_keeps_totals ==
  /\ pc = "strategy"
  /\ groups' = sorted_groups(group_phases(<<>>, selected))
  /\ plan_p' = 1 /\ plan_d' = 1
  /\ items' = <<>> /\ phases' = <<>>
  /\ pc' = "portion"
  /\ UNCHANGED <<calls, request, stage_vars, opt_vars, plan_calorie_limit, strategy,
                 explanation, response, total_calories, stomach_used_ml>>

\* strategy.py 113-121: the phase groups, the totals, the phase order
StrategyPlanningAgent_begin ==
  /\ pc = "strategy"
  /\ groups' = sorted_groups(group_phases(<<>>, selected))
  /\ plan_p' = 1 /\ plan_d' = 1
  /\ items' = <<>> /\ phases' = <<>>
  /\ total_calories' = 0 /\ stomach_used_ml' = 0
  /\ pc' = "portion"
  /\ UNCHANGED <<calls, request, stage_vars, opt_vars, plan_calorie_limit, strategy,
                 explanation, response>>

\* strategy.py 127-152: one dish of the current phase; the phase is appended
\* when its last dish is done
StrategyPlanningAgent_portion ==
  /\ pc = "portion" /\ plan_p <= Len(groups)
  /\ LET phase_name == groups[plan_p].phase
         dish == groups[plan_p].dishes[plan_d]
         cal_remaining == 10 * plan_calorie_limit - total_calories
         vol_remaining == 10 * STOMACH_CAPACITY_ML - stomach_used_ml
         portion == _compute_portion(dish, cal_remaining, vol_remaining)
         item == phase_item(dish, portion)
     IN /\ total_calories' = total_calories + item.calories
        /\ stomach_used_ml' = stomach_used_ml + portion_ml_or_grams(item)
        /\ IF plan_d < Len(groups[plan_p].dishes)
           THEN /\ items' = Append(items, item)
                /\ plan_d' = plan_d + 1
                /\ UNCHANGED <<plan_p, phases>>
           ELSE /\ phases' = Append(phases,
                               [phase_name |-> TitleTable[phase_name],
                                phase_order |-> _phase_order(phase_name),
                                items |-> Append(items, item)])
                /\ items' = <<>>
                /\ plan_p' = plan_p + 1 /\ plan_d' = 1
  /\ UNCHANGED <<pc, calls, request, stage_vars, opt_vars, plan_calorie_limit, groups,
                 strategy, explanation, response>>

\* strategy.py 154-184: the phases sorted, the skip list, the fullness score,
\* the strategy dict and the explanation
StrategyPlanningAgent_return ==
  /\ pc = "portion" /\ plan_p > Len(groups)
  /\ LET sorted_phases == stable_sort(phases, [i \in 1..Len(phases) |-> phases[i].phase_order])
         skip_list == [i \in 1..Len(skip) |-> [name |-> skip[i].name, reason |-> SKIP_REASON]]
     IN /\ phases' = sorted_phases
        /\ strategy' = [phases |-> sorted_phases,
                        skip |-> skip_list,
                        total_calories |-> total_calories,
                        fullness_score |-> fullness_score(stomach_used_ml),
                        stomach_used_ml |-> stomach_used_ml]
        /\ explanation' = _generate_explanation(sorted_phases, goal, skip)
  /\ pc' = "returned"
  /\ UNCHANGED <<calls, request, stage_vars, opt_vars, plan_calorie_limit, groups, plan_p,
                 plan_d, items, total_calories, stomach_used_ml, response>>

\* pipeline.py 113-130: the response
BuildResponse ==
  /\ pc = "returned"
  /\ response' =
       [detected_dishes |-> detected_dishes,
        nutrition_summary |-> _build_nutrition_summary(with_nutrition),
        stomach_simulation |-> _build_stomach_simulation(with_stomach, selected),
        strategy |-> strategy,
        explanation |-> explanation,
        confidence_overall |->
          pyround(SeqSum([i \in 1..Len(detected_dishes) |-> detected_dishes[i].confidence]),
                  Len(detected_dishes))]
  /\ pc' = "done"
  /\ UNCHANGED <<calls, request, stage_vars, opt_vars, plan_vars>>

Next ==
  \/ EmptyResponse
  \/ NutritionAgent_process
  \/ StomachPhysicsAgent_process
  \/ GoalOptimizationAgent_begin
  \/ GoalOptimizationAgent_greedy
  \/ GoalOptimizationAgent_return
  \/ StrategyPlanningAgent_begin
  \/ StrategyPlanningAgent_portion
  \/ StrategyPlanningAgent_return
  \/ BuildResponse

Spec == Init /\ [][Next]_vars

(***************************************************************************)
(* StrategyPlanningAgent.process called on its own                         *)
(***************************************************************************)
SelectedLists == ListsUpTo(Enriched, MaxSelected)

SkipLists ==
  ListsUpTo({with_stomach_of(with_nutrition_of(DetectedDish("Dessert", 60, 10, 800))),
             with_stomach_of(with_nutrition_of(DetectedDish("Cheese", 90, 0, 1000)))}, 1)

InitPlanner ==
  /\ pc = "strategy"
  /\ selected \in SelectedLists
  /\ skip \in SkipLists
  /\ goal \in Goals
  /\ plan_calorie_limit \in PlannerLimits
  /\ detected_dishes = <<>> /\ calorie_limit = {} /\ allergies = <<>> /\ dietary_filters = <<>>
  /\ with_nutrition = <<>> /\ with_stomach = <<>>
  /\ opt_calorie_limit = 0 /\ dishes = <<>> /\ scored = <<>> /\ opt_i = 0
  /\ total_cal = 0 /\ total_vol = 0
  /\ groups = <<>> /\ plan_p = 0 /\ plan_d = 0
  /\ items = <<>> /\ phases = <<>> /\ total_calories = 0 /\ stomach_used_ml = 0
  /\ strategy = NoStrategy /\ explanation = ""
  /\ response = "None"
  /\ call = "first" /\ first_result = "None"

NextPlanner ==
  \/ StrategyPlanningAgent_begin
  \/ StrategyPlanningAgent_portion
  \/ StrategyPlanningAgent_return

SpecPlanner == InitPlanner /\ [][NextPlanner]_vars


(***************************************************************************)
(* StomachPhysicsAgent.process called on one item of any profile           *)
(***************************************************************************)
InitStomach ==
  /\ pc = "stomach"
  /\ with_nutrition \in {<<item>> : item \in StomachItems}
  /\ detected_dishes = <<>> /\ goal = "enjoyment_first" /\ calorie_limit = {}
  /\ allergies = <<>> /\ dietary_filters = <<>>
  /\ with_stomach = <<>>
  /\ opt_calorie_limit = 0 /\ dishes = <<>> /\ scored = <<>> /\ opt_i = 0
  /\ selected = <<>> /\ total_cal = 0 /\ total_vol = 0 /\ skip = <<>>
  /\ plan_calorie_limit = 0 /\ groups = <<>> /\ plan_p = 0 /\ plan_d = 0
  /\ items = <<>> /\ phases = <<>> /\ total_calories = 0 /\ stomach_used_ml = 0
  /\ strategy = NoStrategy /\ explanation = ""
  /\ response = "None"
  /\ call = "first" /\ first_result = "None"

NextStomach == StomachPhysicsAgent_process

SpecStomach == InitStomach /\ [][NextStomach]_vars


(***************************************************************************)
(* The three-dish buffet: mixed salad 80 g, grilled chicken 150 g and      *)
(* dessert 80 g, goal fat_loss, budget 2000                                *)
(***************************************************************************)
\* the three dishes of one spelling in every order
ScenarioLists ==
  {l \in UNION {[1..3 -> S] : S \in ScenarioDishes} :
     \A i, j \in 1..3 : i # j => l[i] # l[j]}

\* the budget passed as 2000, or left to the configured default of 2000
ScenarioLimits == {{2000}, {}}

InitScenario ==
  /\ pc = "entry"
  /\ detected_dishes \in ScenarioLists
  /\ goal = "fat_loss"
  /\ calorie_limit \in ScenarioLimits
  /\ allergies = <<>> /\ dietary_filters = <<>>
  /\ with_nutrition = <<>> /\ with_stomach = <<>>
  /\ opt_calorie_limit = 0 /\ dishes = <<>> /\ scored = <<>> /\ opt_i = 0
  /\ selected = <<>> /\ total_cal = 0 /\ total_vol = 0 /\ skip = <<>>
  /\ plan_calorie_limit = 0 /\ groups = <<>> /\ plan_p = 0 /\ plan_d = 0
  /\ items = <<>> /\ phases = <<>> /\ total_calories = 0 /\ stomach_used_ml = 0
  /\ strategy = NoStrategy /\ explanation = ""
  /\ response = "None"
  /\ call = "first" /\ first_result = "None"

NextScenario ==
  \/ NutritionAgent_process
  \/ StomachPhysicsAgent_process
  \/ GoalOptimizationAgent_begin
  \/ GoalOptimizationAgent_greedy
  \/ GoalOptimizationAgent_return
  \/ StrategyPlanningAgent_begin
  \/ StrategyPlanningAgent_portion
  \/ StrategyPlanningAgent_return
  \/ BuildResponse

SpecScenario == InitScenario /\ [][NextScenario]_vars


(***************************************************************************)
(* _run_rest_of_pipeline called a second time                              *)
(***************************************************************************)
\* the dishes of the requests that are served twice
TwiceCatalogue ==
  { DetectedDish("Mixed Salad", 70, 10, 800),
    DetectedDish("Grilled Chicken", 70, 10, 1500),
    DetectedDish("Dessert", 60, 10, 800),
    DetectedDish("Soup", 70, 10, 8000) }

TwiceLists == ListsUpTo(TwiceCatalogue, MaxDishes)

TwiceDietaryLists == {<<>>, <<"vegan">>}

\* the goal tags _goal_reward and goal_hint know
KnownGoals == {"fat_loss", "muscle_gain", "blood_sugar", "enjoyment_first"}

InitTwice ==
  /\ pc = "entry"
  /\ detected_dishes \in TwiceLists
  /\ goal \in Goals
  /\ calorie_limit \in CalorieLimits
  /\ allergies \in AllergyLists
  /\ dietary_filters \in TwiceDietaryLists
  /\ with_nutrition = <<>> /\ with_stomach = <<>>
  /\ opt_calorie_limit = 0 /\ dishes = <<>> /\ scored = <<>> /\ opt_i = 0
  /\ selected = <<>> /\ total_cal = 0 /\ total_vol = 0 /\ skip = <<>>
  /\ plan_calorie_limit = 0 /\ groups = <<>> /\ plan_p = 0 /\ plan_d = 0
  /\ items = <<>> /\ phases = <<>> /\ total_calories = 0 /\ stomach_used_ml = 0
  /\ strategy = NoStrategy /\ explanation = ""
  /\ response = "None"
  /\ call = "first" /\ first_result = "None"

\* what a caller of the pipeline and of its two last agents gets back
result_of_call ==
  [response |-> response, selected |-> selected, skip |-> skip]

\* the same request is served again.  The agents are constructed anew by every
\* call and the names of the call before are not those of the new one: what
\* they held last is left where it is, the new call assigns before it reads.
SameRequestAgain ==
  /\ pc = "done" /\ call = "first"
  /\ first_result' = result_of_call
  /\ call' = "same"
  /\ pc' = "entry"
  /\ UNCHANGED <<request, stage_vars, opt_vars, plan_vars, response>>

\* a request with a goal tag the code does not know is served again with the
\* goal enjoyment_first and everything else as it was
EnjoymentFirstAgain ==
  /\ pc = "done" /\ call = "first" /\ goal \notin KnownGoals
  /\ first_result' = result_of_call
  /\ call' = "enjoyment_first"
  /\ goal' = "enjoyment_first"
  /\ pc' = "entry"
  /\ UNCHANGED <<detected_dishes, calorie_limit, allergies, dietary_filters,
                 stage_vars, opt_vars, plan_vars, response>>

NextTwice ==
  \/ Next
  \/ SameRequestAgain
  \/ EnjoymentFirstAgain

SpecTwice == InitTwice /\ [][NextTwice]_vars


(***************************************************************************)
(* StrategyPlanningAgent.process called on one dish of any name and        *)
(* profile                                                                 *)
(***************************************************************************)
InitClassify ==
  /\ pc = "strategy"
  /\ selected \in {<<d>> : d \in EnrichedClassify}
  /\ skip = <<>>
  /\ goal = "enjoyment_first"
  /\ plan_calorie_limit = DEFAULT_CALORIE_LIMIT
  /\ detected_dishes = <<>> /\ calorie_limit = {} /\ allergies = <<>> /\ dietary_filters = <<>>
  /\ with_nutrition = <<>> /\ with_stomach = <<>>
  /\ opt_calorie_limit = 0 /\ dishes = <<>> /\ scored = <<>> /\ opt_i = 0
  /\ total_cal = 0 /\ total_vol = 0
  /\ groups = <<>> /\ plan_p = 0 /\ plan_d = 0
  /\ items = <<>> /\ phases = <<>> /\ total_calories = 0 /\ stomach_used_ml = 0
  /\ strategy = NoStrategy /\ explanation = ""
  /\ response = "None"
  /\ call = "first" /\ first_result = "None"

SpecClassify == InitClassify /\ [][NextPlanner]_vars


(***************************************************************************)
(* The pipeline on the buffet of mixed densities                           *)
(***************************************************************************)
\* the budget left to the default, passed as 2000 and passed as 3000
DensityLimits == {{}, {2000}, {3000}}

InitDensity ==
  /\ pc = "entry"
  /\ detected_dishes = DensityBuffet
  /\ goal \in Goals
  /\ calorie_limit \in DensityLimits
  /\ allergies = <<>> /\ dietary_filters = <<>>
  /\ with_nutrition = <<>> /\ with_stomach = <<>>
  /\ opt_calorie_limit = 0 /\ dishes = <<>> /\ scored = <<>> /\ opt_i = 0
  /\ selected = <<>> /\ total_cal = 0 /\ total_vol = 0 /\ skip = <<>>
  /\ plan_calorie_limit = 0 /\ groups = <<>> /\ plan_p = 0 /\ plan_d = 0
  /\ items = <<>> /\ phases = <<>> /\ total_calories = 0 /\ stomach_used_ml = 0
  /\ strategy = NoStrategy /\ explanation = ""
  /\ response = "None"
  /\ call = "first" /\ first_result = "None"

SpecDensity == InitDensity /\ [][NextScenario]_vars

(***************************************************************************)
(* The pipeline on requests with dietary tags over the names of both       *)
(* keyword sets                                                            *)
(***************************************************************************)
DietaryDishLists == ListsUpTo(DietaryCatalogue, MaxDishes)

InitDietary ==
  /\ pc = "entry"
  /\ detected_dishes \in DietaryDishLists
  /\ goal = "fat_loss"
  /\ calorie_limit = {}
  /\ allergies \in AllergyLists /\ dietary_filters \in DietaryLists
  /\ with_nutrition = <<>> /\ with_stomach = <<>>
  /\ opt_calorie_limit = 0 /\ dishes = <<>> /\ scored = <<>> /\ opt_i = 0
  /\ selected = <<>> /\ total_cal = 0 /\ total_vol = 0 /\ skip = <<>>
  /\ plan_calorie_limit = 0 /\ groups = <<>> /\ plan_p = 0 /\ plan_d = 0
  /\ items = <<>> /\ phases = <<>> /\ total_calories = 0 /\ stomach_used_ml = 0
  /\ strategy = NoStrategy /\ explanation = ""
  /\ response = "None"
  /\ call = "first" /\ first_result = "None"

SpecDietary == InitDietary /\ [][Next]_vars


(***************************************************************************)
(* GoalOptimizationAgent.process called on its own                         *)
(***************************************************************************)
AllocatorLists ==
  ListsUpTo({with_stomach_of(with_nutrition_of(d)) : d \in Catalogue}, MaxDishes)

InitAllocator ==
  /\ pc = "optimize"
  /\ with_stomach \in AllocatorLists
  /\ goal \in Goals
  /\ calorie_limit \in CalorieLimits
  /\ allergies \in AllergyLists /\ dietary_filters = <<>>
  /\ detected_dishes = <<>> /\ with_nutrition = <<>>
  /\ opt_calorie_limit = 0 /\ dishes = <<>> /\ scored = <<>> /\ opt_i = 0
  /\ selected = <<>> /\ total_cal = 0 /\ total_vol = 0 /\ skip = <<>>
  /\ plan_calorie_limit = 0 /\ groups = <<>> /\ plan_p = 0 /\ plan_d = 0
  /\ items = <<>> /\ phases = <<>> /\ total_calories = 0 /\ stomach_used_ml = 0
  /\ strategy = NoStrategy /\ explanation = ""
  /\ response = "None"
  /\ call = "first" /\ first_result = "None"

NextAllocator ==
  \/ GoalOptimizationAgent_begin
  \/ GoalOptimizationAgent_greedy
  \/ GoalOptimizationAgent_return

SpecAllocator == InitAllocator /\ [][NextAllocator]_vars

(***************************************************************************)
(* Properties of the allocator (GoalOptimizationAgent) inside the pipeline *)
(***************************************************************************)
\* GoalOptimizationAgent.process has returned
OptimizerReturned == pc \in {"strategy", "portion", "returned", "done"}

\* the name contains one of the request's allergen keywords, both lower-cased
name_has_allergen(name) ==
  \E i \in 1..Len(allergies) : str_in(str_lower(allergies[i]), str_lower(name))

\* the name contains one of the keywords, the name lower-cased
name_has_any(keywords, name) == \E kw \in keywords : str_in(kw, str_lower(name))

\* the dietary tags of the request, read without regard to case
dietary_tags == {str_lower(dietary_filters[i]) : i \in 1..Len(dietary_filters)}

\* the names of all items of all phases of the plan
RECURSIVE plan_item_names(_)
plan_item_names(phase_list) ==
  IF phase_list = <<>> THEN <<>>
  ELSE item_names(Head(phase_list).items) \o plan_item_names(Tail(phase_list))

\* C1: once the allocator has returned, selected and skipped have no item in
\* common and together hold each item of the filtered list exactly as many
\* times as the filtered list holds it.
C1_SelectedSkippedPartition ==
  OptimizerReturned =>
    /\ \A i \in 1..Len(selected) : ~SeqIn(selected[i], skip)
    /\ \A i \in 1..Len(dishes) :
         SeqCount(dishes[i], selected) + SeqCount(dishes[i], skip)
           = SeqCount(dishes[i], dishes)
    /\ Len(selected) + Len(skip) = Len(dishes)

\* C2: when the caller passes a calorie budget, 0 included, the calories of
\* the selected items (calories per 100 g x grams / 100) sum to at most that
\* budget. dish_cal is in units of 1/10000 kcal.
C2_SelectedCaloriesWithinBudget ==
  (OptimizerReturned /\ calorie_limit # {}) =>
    \A budget \in calorie_limit :
      SeqSum([i \in 1..Len(selected) |-> dish_cal(selected[i])]) <= budget * 10000

\* C3: after every iteration of the greedy pass and on return, the volumes of
\* the items accepted so far sum to at most 1.10 x the stomach capacity.
\* volume_ml is in thousandths of a ml.
C3_SelectedVolumeWithinTolerance ==
  /\ SeqSum([i \in 1..Len(selected) |-> selected[i].stomach_impact.volume_ml]) * 10
       <= STOMACH_CAPACITY_ML * 1000 * 11
  /\ total_vol = SeqSum([i \in 1..Len(selected) |-> selected[i].stomach_impact.volume_ml])

\* C3 witness: the greedy pass is over, it accepted an item and refused another
\* that the calorie budget still allowed and the volume bound did not.
C3_RefusedForVolume ==
  /\ pc = "strategy" /\ selected # <<>>
  /\ \E i \in 1..Len(scored) :
       LET d == scored[i].d
       IN /\ Len(selected) < Len(scored)
          /\ total_cal + dish_cal(d) <= opt_calorie_limit * 10000
          /\ (total_vol + d.stomach_impact.volume_ml) * 10 > STOMACH_CAPACITY_ML * 1000 * 11

\* C4: with a non-empty allergen list, no item whose name contains an allergen
\* keyword (substring, without regard to case) is in the selected list or in
\* a phase of the plan.
C4_NoAllergenSelectedOrPlanned ==
  allergies # <<>> =>
    /\ \A i \in 1..Len(selected) : ~name_has_allergen(selected[i].name)
    /\ \A i \in 1..Len(items) : ~name_has_allergen(items[i].dish_name)
    /\ \A names \in {plan_item_names(phases), plan_item_names(strategy.phases)} :
         \A i \in 1..Len(names) : ~name_has_allergen(names[i])
    /\ pc = "done" =>
         \A names \in {plan_item_names(response.strategy.phases)} :
           \A i \in 1..Len(names) : ~name_has_allergen(names[i])

\* C4 witness: a response whose request named allergens, whose detected list
\* held an item matching one only when case is ignored, and whose plan has a
\* phase.
C4_AllergenDishDetected ==
  /\ pc = "done" /\ allergies # <<>>
  /\ \E i \in 1..Len(detected_dishes) :
       /\ name_has_allergen(detected_dishes[i].name)
       /\ \A j \in 1..Len(allergies) : ~str_in(allergies[j], detected_dishes[i].name)
  /\ response.strategy.phases # <<>>

\* C5: every item the allergen filter or the dietary filter removed is
\* named in the skip list of the plan.
C5_FilteredItemsInSkipList ==
  pc = "done" /\ detected_dishes # <<>> =>
    \A i \in 1..Len(with_stomach) :
      ~SeqIn(with_stomach[i], dishes) =>
        \E j \in 1..Len(response.strategy.skip) :
          response.strategy.skip[j].name = with_stomach[i].name

\* the enriched items the allergen filter lets through
AllergenFiltered == SelectSeq(with_stomach, LAMBDA d : ~name_has_allergen(d.name))

\* C6: one dietary rule applies. With "vegan" among the tags (tags read
\* without regard to case, as the code reads them), alone or with
\* "vegetarian", exactly the items named with a non-vegan keyword are dropped
\* and no phase holds an item named with eggs or cheese; with "vegetarian" and
\* no "vegan", exactly the items named with a non-vegetarian keyword are
\* dropped and the items named with eggs or cheese stay.
C6_OneDietaryRule ==
  pc \notin {"entry", "stomach", "optimize"} /\ detected_dishes # <<>> =>
    /\ "vegan" \in dietary_tags =>
         /\ dishes = SelectSeq(AllergenFiltered, LAMBDA d : ~name_has_any(non_vegan, d.name))
         /\ \A names \in {plan_item_names(phases), plan_item_names(strategy.phases),
                           item_names(items)} :
              \A i \in 1..Len(names) : ~name_has_any({"eggs", "cheese"}, names[i])
    /\ ("vegetarian" \in dietary_tags /\ "vegan" \notin dietary_tags) =>
         /\ dishes = SelectSeq(AllergenFiltered, LAMBDA d : ~name_has_any(non_veg, d.name))
         /\ \A i \in 1..Len(AllergenFiltered) :
              name_has_any({"eggs", "cheese"}, AllergenFiltered[i].name)
                => SeqIn(AllergenFiltered[i], dishes)

\* C6 witness: both tags are given, vegetarian first, an item named with eggs
\* or cheese passed the allergen filter, and the plan of the response has a
\* phase.
C6_BothTagsWithEggsOrCheese ==
  /\ pc = "done"
  /\ {"vegan", "vegetarian"} \subseteq dietary_tags
  /\ str_lower(dietary_filters[1]) = "vegetarian"
  /\ \E i \in 1..Len(AllergenFiltered) :
       name_has_any({"eggs", "cheese"}, AllergenFiltered[i].name)
  /\ response.strategy.phases # <<>>

(***************************************************************************)
(* Properties of the planner (StrategyPlanningAgent.process)               *)
(***************************************************************************)
\* the <<dish, item>> pairs of the plan built so far: the items of the k-th
\* phase stand in the order of the dishes of the k-th phase group, and the
\* items of the phase in progress in the order of that group's first dishes
planned_pairs ==
  UNION {{<<groups[k].dishes[j], phases[k].items[j]>> : j \in 1..Len(phases[k].items)} :
           k \in 1..Len(phases)}
    \cup {<<groups[plan_p].dishes[j], items[j]>> : j \in 1..Len(items)}

\* the order index a phase title stands for
order_index(title) ==
  CASE title = "Starter" -> 1
    [] title = "Protein" -> 2
    [] title = "Vegetables" -> 3
    [] title = "Carbs" -> 4
    [] title = "Treats" -> 5
    [] OTHER -> 0

\* C7 as stated: every item of estimated mass > 0 gets a portion between 20
\* and 250 g that is at most its estimated mass (estimated_grams in tenths).
C7_PortionAtMostEstimatedMass ==
  \A pair \in planned_pairs :
    pair[1].estimated_grams > 0 =>
      /\ pair[2].portion_grams >= 20 /\ pair[2].portion_grams <= 250
      /\ pair[2].portion_grams * 10 <= pair[1].estimated_grams

\* C7 amended: every item, whatever the remaining budgets, gets a portion
\* between 20 and 250 g that is at most its estimated mass rounded to the
\* nearest gram, or 20 g when that is less than 20 g.
C7_PortionAtMostRoundedMassOrFloor ==
  \A pair \in planned_pairs :
    /\ pair[2].portion_grams >= 20 /\ pair[2].portion_grams <= 250
    /\ pair[2].portion_grams <= Max(20, pyround(pair[1].estimated_grams, 10))

\* C7 witness: a finished plan with an item lighter than 20 g served at the
\* 20 g floor and an item of at least 20 g served above its estimated mass
\* by rounding.
C7_FloorAndRoundingAboveMass ==
  /\ pc = "returned"
  /\ \E pair \in planned_pairs :
       /\ pair[1].estimated_grams > 0 /\ pair[1].estimated_grams < 200
       /\ pair[2].portion_grams = 20
  /\ \E pair \in planned_pairs :
       /\ pair[1].estimated_grams >= 200
       /\ pair[2].portion_grams * 10 > pair[1].estimated_grams

\* C8: in the returned plan each selected item stands in exactly one phase and
\* exactly once, and the phases hold nothing that was not selected: the item
\* names of the plan are the selected names, each as often as selected, and
\* no name stands in two phases.
C8_SelectedItemsPlannedOnce ==
  pc = "returned" =>
    LET planned == plan_item_names(strategy.phases)
        chosen == dish_names(selected)
    IN /\ Len(planned) = Len(chosen)
       /\ \A i \in 1..Len(chosen) : SeqCount(chosen[i], planned) = SeqCount(chosen[i], chosen)
       /\ \A i \in 1..Len(planned) : SeqIn(planned[i], chosen)
       /\ \A k, l \in 1..Len(strategy.phases) :
            k # l => \A i \in 1..Len(strategy.phases[k].items) :
                       ~SeqIn(strategy.phases[k].items[i].dish_name,
                              item_names(strategy.phases[l].items))

\* C8 witness: two different selected dishes of one phase, planned as the two
\* items of the only phase.
C8_TwoDishesInOnePhase ==
  /\ pc = "returned" /\ Len(selected) = 2 /\ selected[1].name # selected[2].name
  /\ Len(strategy.phases) = 1 /\ Len(strategy.phases[1].items) = 2

\* C9: the phase list of the plan holds non-empty phases only, and the order
\* indices rise strictly along the list, each the index of its phase:
\* starter 1, protein 2, vegetables 3, carbs 4, treats 5.
C9_PhasesNonEmptyInRisingOrder ==
  /\ \A k \in 1..Len(strategy.phases) :
       /\ strategy.phases[k].items # <<>>
       /\ strategy.phases[k].phase_order = order_index(strategy.phases[k].phase_name)
       /\ strategy.phases[k].phase_order \in 1..5
  /\ \A k \in 1..(Len(strategy.phases) - 1) :
       strategy.phases[k].phase_order < strategy.phases[k + 1].phase_order

\* C9 witness: a plan of two phases whose first phase holds the dish selected
\* second, so the phases are not in the order of selection.
C9_PhasesReorderSelection ==
  /\ pc = "returned" /\ Len(selected) = 2 /\ Len(strategy.phases) = 2
  /\ strategy.phases[1].items[1].dish_name = selected[2].name
  /\ strategy.phases[1].phase_order = 3
  /\ strategy.phases[2].phase_order = 4

\* C10: called with an empty selected list and an empty skipped list, for
\* every goal tag, process returns a plan with no phases and the fallback
\* sentence as explanation.
C10_EmptyPlanFallbackExplanation ==
  (pc = "returned" /\ selected = <<>> /\ skip = <<>>) =>
    /\ strategy.phases = <<>>
    /\ explanation = FALLBACK_EXPLANATION

(***************************************************************************)
(* Properties of the pipeline on an empty item list                        *)
(***************************************************************************)
\* C11: for an empty item list the pipeline runs no stage and returns, for
\* every goal, budget, allergen list and dietary tags, the same response: no
\* phases, no skip entries, total calories 0, fullness 0, empty aggregates,
\* confidence 0.0 and the fixed explanation "No dishes detected.".
C11_EmptyListFixedResponse ==
  (pc = "done" /\ detected_dishes = <<>>) =>
    /\ response.strategy.phases = <<>>
    /\ response.strategy.skip = <<>>
    /\ response.strategy.total_calories = 0
    /\ response.strategy.fullness_score = 0
    /\ response.detected_dishes = <<>>
    /\ response.nutrition_summary = "{}"
    /\ response.stomach_simulation = "{}"
    /\ response.confidence_overall = 0
    /\ response.explanation = "No dishes detected."
    /\ with_nutrition = <<>> /\ with_stomach = <<>>
    /\ dishes = <<>> /\ scored = <<>> /\ selected = <<>> /\ skip = <<>>
    /\ groups = <<>> /\ phases = <<>> /\ strategy = NoStrategy /\ explanation = ""

\* C11 witness: the response to an empty list whose request names a known
\* goal, a budget, allergens and dietary tags.
C11_EmptyListFullRequest ==
  /\ pc = "done" /\ detected_dishes = <<>>
  /\ goal = "fat_loss" /\ calorie_limit = {300}
  /\ allergies # <<>> /\ dietary_filters # <<>>

(***************************************************************************)
(* Properties of NutritionAgent and StomachPhysicsAgent                    *)
(***************************************************************************)
\* the item and its stomach impact once StomachPhysicsAgent.process is done
StomachDone == pc = "optimize" /\ Len(with_stomach) = 1

\* C14: volume_ml is the estimated mass divided by the density, a density of
\* exactly 0 replaced by 1.0, for every non-negative mass and density.
\* volume_ml in thousandths of a ml, mass and density in tenths.
C14_VolumeIsMassOverDensity ==
  StomachDone =>
    LET d == with_stomach[1]
        density == IF d.estimated_portion_density = 0 THEN 10
                   ELSE d.estimated_portion_density
    IN /\ d.stomach_impact.volume_ml * density = d.estimated_grams * 1000
       /\ d.stomach_impact.volume_ml >= 0

\* C14 witness: an item of positive mass and density 0 has been given its
\* volume.
C14_ZeroDensityItem ==
  /\ StomachDone
  /\ with_stomach[1].estimated_portion_density = 0
  /\ with_stomach[1].estimated_grams > 0

\* C15: the satiety score is max(0, protein x 2 + fiber x 3
\* + 10000 / max(calories, 10) - fat x 0.5), never negative.  The stored
\* score (hundredths) is that value rounded to two decimals: with
\* c = max(calories, 10) in tenths, 20 c times the value is
\* (4 protein + 6 fiber - fat) c + 2000000, and the score is within 0.005.
C15_SatietyFormula ==
  StomachDone =>
    LET n == with_stomach[1].nutrition_per_100g
        c == IF n.calories < 100 THEN 100 ELSE n.calories
        raw == (4 * n.protein + 6 * n.fiber - n.fat) * c + 2000000
        value == IF raw < 0 THEN 0 ELSE raw
        score == with_stomach[1].stomach_impact.satiety_score
        diff == 2 * score * c - 10 * value
    IN /\ score >= 0
       /\ diff <= c /\ 0 - diff <= c

\* C15 witness: an item below 10 kcal, scored with the divisor 10: its score
\* is above 1000 (10000 / 10 plus the protein and fiber terms).
C15_BelowTenCalories ==
  /\ StomachDone
  /\ with_stomach[1].nutrition_per_100g.calories < 100
  /\ with_stomach[1].stomach_impact.satiety_score > 100000

\* C16: every item gets one class of fast, medium, slow: fast when
\* calories < 60 and fat < 2, otherwise slow when fat > 15, otherwise medium,
\* whatever the fiber.
C16_DigestionSpeedRules ==
  StomachDone =>
    LET n == with_stomach[1].nutrition_per_100g
        speed == with_stomach[1].stomach_impact.digestion_speed
    IN /\ speed \in {"fast", "medium", "slow"}
       /\ speed = (IF n.calories < 600 /\ n.fat < 20 THEN "fast"
                   ELSE IF n.fat > 150 THEN "slow"
                   ELSE "medium")

\* C16 witness: a high-fiber item of 60 kcal or more and little fat is
\* classed medium.
C16_HighFiberMedium ==
  /\ StomachDone
  /\ with_stomach[1].nutrition_per_100g.fiber > 50
  /\ with_stomach[1].nutrition_per_100g.calories >= 600
  /\ with_stomach[1].nutrition_per_100g.fat < 20
  /\ with_stomach[1].stomach_impact.digestion_speed = "medium"

\* the case-folded, trimmed name is a key of the reference table
is_table_key(name) ==
  \E i \in 1..Len(_load_nutrition_db) :
    _load_nutrition_db[i].key = str_strip(str_lower(name))

\* a key is a substring of the case-folded, trimmed name, or the name of a key
is_partial_match(name) ==
  \E i \in 1..Len(_load_nutrition_db) :
    \/ str_in(_load_nutrition_db[i].key, str_strip(str_lower(name)))
    \/ str_in(str_strip(str_lower(name)), _load_nutrition_db[i].key)

\* C12: the confidence NutritionAgent attaches tells the kind of match: 0.9
\* exactly when the name is a key, 0.7 when it is no key but matches one as a
\* substring, and a value below 0.7 when the default profile is used.
C12_ConfidenceByMatchKind ==
  pc = "stomach" =>
    \A i \in 1..Len(with_nutrition) :
      LET name == with_nutrition[i].name
          conf == with_nutrition[i].nutrition_per_100g.confidence
      IN /\ (conf = 90) <=> is_table_key(name)
         /\ (~is_table_key(name) /\ is_partial_match(name)) => conf = 70
         /\ (~is_table_key(name) /\ ~is_partial_match(name)) => conf < 70

\* C13: NutritionAgent.process returns a list as long as its input, the i-th
\* element named as the i-th input, every profile with calories >= 0, and the
\* default profile for a name that equals, contains and is contained in no
\* key.
C13_ProfilesInOrderWithDefault ==
  pc = "stomach" =>
    /\ Len(with_nutrition) = Len(detected_dishes)
    /\ \A i \in 1..Len(detected_dishes) :
         LET n == with_nutrition[i].nutrition_per_100g
         IN /\ with_nutrition[i].name = detected_dishes[i].name
            /\ with_nutrition[i].estimated_grams = detected_dishes[i].estimated_grams
            /\ n.calories >= 0
            /\ (~is_table_key(detected_dishes[i].name)
                  /\ ~is_partial_match(detected_dishes[i].name)) =>
                 /\ n.calories = 1500 /\ n.protein = 80 /\ n.fat = 80
                 /\ n.carbs = 120 /\ n.fiber = 15 /\ n.glycemic_load = 100

\* C13 witness: a list of a known dish followed by the unknown "xyzfood123"
\* has been enriched.
C13_UnknownNameSecond ==
  /\ pc = "stomach" /\ Len(with_nutrition) = 2
  /\ is_table_key(with_nutrition[1].name)
  /\ with_nutrition[2].name = "xyzfood123"
  /\ ~is_partial_match("xyzfood123")

(***************************************************************************)
(* Properties of the plan's fullness score                                 *)
(***************************************************************************)
\* C19: the fullness score of every plan is min(1, volume used / stomach
\* capacity), between 0 and 1, also when the 20 g floor takes the volume used
\* above the capacity.  The score (hundredths) is that value rounded to two
\* decimals, so it is within 0.005 of it; volume used in tenths of a ml.
C19_FullnessIsClampedRatio ==
  pc = "returned" =>
    LET score == strategy.fullness_score
        used == strategy.stomach_used_ml
        diff == 10 * STOMACH_CAPACITY_ML * score - 100 * used
    IN /\ score >= 0 /\ score <= 100
       /\ used >= 10 * STOMACH_CAPACITY_ML => score = 100
       /\ used < 10 * STOMACH_CAPACITY_ML =>
            (diff <= 5 * STOMACH_CAPACITY_ML /\ 0 - diff <= 5 * STOMACH_CAPACITY_ML)
       /\ used = stomach_used_ml

\* C19 witness: a returned plan whose 20 g floor took the volume used above
\* the stomach capacity.
C19_FloorAboveCapacity ==
  /\ pc = "returned"
  /\ stomach_used_ml > 10 * STOMACH_CAPACITY_ML
  /\ \E pair \in planned_pairs : pair[2].portion_grams = 20

\* the entry of the scored list for the dish of that (lower-cased) name
scored_entry(name) ==
  scored[CHOOSE i \in 1..Len(scored) : str_lower(scored[i].d.name) = name]

\* C20: for mixed salad 80 g, grilled chicken 150 g and dessert 80 g with goal
\* fat_loss, budget 2000 and capacity 1350 ml: the chicken has the highest
\* score and is first in selected, the dessert has the lowest score, every
\* phase of the plan is non-empty with starter before protein before treats,
\* and the fullness score is in [0, 1].
C20_ThreeDishFatLoss ==
  /\ pc \notin {"entry", "stomach", "optimize"} =>
       /\ Len(scored) = 3
       /\ scored_entry("grilled chicken").score > scored_entry("mixed salad").score
       /\ scored_entry("mixed salad").score > scored_entry("dessert").score
       /\ opt_calorie_limit = 2000
  /\ OptimizerReturned =>
       str_lower(selected[1].name) = "grilled chicken"
  /\ pc \in {"returned", "done"} =>
       LET ps == strategy.phases
       IN /\ \A i \in 1..Len(ps) : ps[i].items # <<>>
          /\ \A i, j \in 1..Len(ps) :
               /\ (ps[i].phase_name = "Starter" /\ ps[j].phase_name = "Protein") => i < j
               /\ (ps[i].phase_name = "Protein" /\ ps[j].phase_name = "Treats") => i < j
               /\ (ps[i].phase_name = "Starter" /\ ps[j].phase_name = "Treats") => i < j
          /\ strategy.fullness_score >= 0 /\ strategy.fullness_score <= 100
  /\ pc = "done" => response.strategy = strategy

\* C20 witness: the response of the three-dish buffet, its plan holding the
\* chicken in a Protein phase after a Starter phase.
C20_PlanWithStarterAndProtein ==
  /\ pc = "done" /\ Len(detected_dishes) = 3 /\ goal = "fat_loss"
  /\ \E i, j \in 1..Len(response.strategy.phases) :
       /\ i < j
       /\ response.strategy.phases[i].phase_name = "Starter"
       /\ response.strategy.phases[j].phase_name = "Protein"
       /\ \E k \in 1..Len(response.strategy.phases[j].items) :
            str_lower(response.strategy.phases[j].items[k].dish_name) = "grilled chicken"

\* C17: for a goal tag outside {fat_loss, muscle_gain, blood_sugar,
\* enjoyment_first}, the complete result of the pipeline (selected and skipped
\* items, plan and explanation) is the result it gives with goal
\* enjoyment_first on the same items, budget, allergens and dietary tags.
C17_UnknownGoalAsEnjoymentFirst ==
  (pc = "done" /\ call = "enjoyment_first") =>
    /\ selected = first_result.selected
    /\ skip = first_result.skip
    /\ response.strategy = first_result.response.strategy
    /\ response.explanation = first_result.response.explanation

Scored == pc \notin {"entry", "stomach", "optimize"} /\ dishes # <<>>

\* the entries of the scored list the greedy pass has been through
considered == IF pc = "greedy" THEN opt_i - 1 ELSE Len(scored)

\* calories of the whole k-th scored dish (1/10000 kcal) and its volume
\* (thousandths of a ml)
scored_cal(k) == scored[k].d.nutrition_per_100g.calories * scored[k].d.estimated_grams

scored_vol(k) == scored[k].d.stomach_impact.volume_ml

\* the k-th scored dish fits on top of the dishes at the positions acc below k
fits_after(acc, k) ==
  /\ SeqSum([j \in 1..(k - 1) |-> IF j \in acc THEN scored_cal(j) ELSE 0]) + scored_cal(k)
       <= opt_calorie_limit * 10000
  /\ (SeqSum([j \in 1..(k - 1) |-> IF j \in acc THEN scored_vol(j) ELSE 0]) + scored_vol(k)) * 10
       <= STOMACH_CAPACITY_ML * 1000 * 11

\* the scored dishes at the positions acc, in the order of the scored list
dishes_at(acc) ==
  LET ks == SelectSeq([k \in 1..Len(scored) |-> k], LAMBDA k : k \in acc)
  IN [i \in 1..Len(ks) |-> scored[ks[i]].d]

\* the positions of the considered entries that were accepted: each one
\* exactly when it fitted on top of the accepted ones before it
accepted_positions ==
  CHOOSE acc \in SUBSET (1..considered) :
    \A k \in 1..considered : k \in acc <=> fits_after(acc, k)

\* C21: the allocator goes through the filtered items in descending score,
\* items of equal score in their original relative order, each item once; it
\* accepts an item exactly when its full-mass calories and its volume keep the
\* running calories within the budget and the running volume within
\* 1.10 x capacity; selected is the accepted items in order of acceptance.
C21_GreedyInScoreOrder ==
  Scored =>
    /\ Len(scored) = Len(dishes)
    /\ LET reward == [i \in 1..Len(dishes) |-> _goal_reward(dishes[i], goal)]
       IN /\ \A k \in 1..Len(scored) :
               \E i \in 1..Len(dishes) :
                 scored[k].d = dishes[i] /\ scored[k].score = reward[i]
          /\ \A k \in 1..Len(scored) :
               LET same == SelectSeq([i \in 1..Len(dishes) |-> i],
                                     LAMBDA i : reward[i] = scored[k].score)
               IN [i \in 1..Len(same) |-> dishes[same[i]]]
                    = dishes_at({j \in 1..Len(scored) : scored[j].score = scored[k].score})
    /\ \A i, j \in 1..Len(scored) : i < j => scored[i].score >= scored[j].score
    /\ considered \in 0..Len(scored)
    /\ \E acc \in SUBSET (1..considered) :
         \A k \in 1..considered : k \in acc <=> fits_after(acc, k)
    /\ selected = dishes_at(accepted_positions)

\* C21 witness: the pass is over two different dishes of equal score, the
\* second of the two refused.
C21_TieAndRefusal ==
  /\ pc = "strategy" /\ Len(scored) = 2
  /\ scored[1].d # scored[2].d
  /\ scored[1].score = scored[2].score
  /\ Len(selected) = 1

\* C22: once the greedy pass has refused an item, it accepts no item that
\* comes after it in score order.
C22_NothingAcceptedAfterRefusal ==
  Scored =>
    \A i, j \in 1..considered :
      (i < j /\ i \notin accepted_positions) => j \notin accepted_positions

RECURSIVE pairs_of_phases(_)
pairs_of_phases(k) ==
  IF k = 0 THEN <<>>
  ELSE pairs_of_phases(k - 1)
         \o [j \in 1..Len(phases[k].items) |-> <<groups[k].dishes[j], phases[k].items[j]>>]

sized_pairs ==
  pairs_of_phases(Len(phases))
    \o [j \in 1..Len(items) |-> <<groups[plan_p].dishes[j], items[j]>>]

\* the selected dishes phase by phase in rising phase order, in each phase in
\* the order of the selected list
RECURSIVE in_phase_order(_)
in_phase_order(rank) ==
  IF rank = 0 THEN <<>>
  ELSE in_phase_order(rank - 1)
         \o SelectSeq(selected, LAMBDA d : _phase_order(PhaseTable[d]) = rank)

\* the volume an item takes (tenths of a ml): its portion_ml, or its portion
\* in grams when it has none
item_volume(item) ==
  IF item.portion_ml = {} THEN 10 * item.portion_grams
  ELSE CHOOSE v \in item.portion_ml : TRUE

\* the masses (g) that cap a dish, as <<numerator, denominator>>: its
\* estimated mass, the mass the remaining calories pay for, the mass that
\* fits the remaining volume (remaining ml x density, 1 g/ml for a dish
\* without mass or density), and 250
caps(dish, cal_remaining, vol_remaining) ==
  LET cal_per_100 == dish.nutrition_per_100g.calories
      density == IF dish.estimated_portion_density = 0 \/ dish.estimated_grams = 0
                 THEN 10 ELSE dish.estimated_portion_density
  IN {<<dish.estimated_grams, 10>>, <<vol_remaining * density, 100>>, <<250, 1>>}
       \cup (IF cal_per_100 > 0 THEN {<<100 * cal_remaining, cal_per_100>>} ELSE {})

\* p = max(20, round(least of the caps)), the rounding of Python: to the
\* nearest whole number, a half to the even one
is_floored_rounded_min(p, cs) ==
  IF \E c \in cs : 2 * c[1] <= 41 * c[2]
  THEN p = 20
  ELSE /\ \A c \in cs : (2 * p - 1) * c[2] <= 2 * c[1]
       /\ \E c \in cs : (2 * p + 1) * c[2] >= 2 * c[1]
       /\ (\E c \in cs : (2 * p - 1) * c[2] = 2 * c[1]) => p % 2 = 0
       /\ (\E c \in cs : (2 * p + 1) * c[2] = 2 * c[1]) => p % 2 = 0

\* C24: the planner sizes the items phase by phase in phase order and in each
\* phase in item order; each portion is max(20, round(min(estimated mass,
\* mass the remaining calories pay for, mass fitting the remaining volume,
\* 250))), the remaining calories being the budget less the portion calories
\* of the items sized before, the remaining volume the stomach capacity less
\* their portion volumes.
C24_PortionFromRemainingBudgets ==
  pc \in {"portion", "returned"} =>
    LET sized == sized_pairs
        order == in_phase_order(5)
    IN /\ Len(sized) <= Len(order)
       /\ pc = "returned" => Len(sized) = Len(order)
       /\ \A k \in 1..Len(sized) :
            LET cal_remaining ==
                  10 * plan_calorie_limit - SeqSum([j \in 1..(k - 1) |-> sized[j][2].calories])
                vol_remaining ==
                  10 * STOMACH_CAPACITY_ML
                    - SeqSum([j \in 1..(k - 1) |-> item_volume(sized[j][2])])
            IN /\ sized[k][1] = order[k]
               /\ sized[k][2].dish_name = order[k].name
               /\ is_floored_rounded_min(sized[k][2].portion_grams,
                                         caps(order[k], cal_remaining, vol_remaining))

\* C24 witness: a returned plan whose second item got more than the floor and
\* less than its estimated mass and 250 g: what the first item left decided.
C24_SecondItemCutByRemainder ==
  /\ pc = "returned" /\ Len(sized_pairs) = 2
  /\ sized_pairs[2][2].portion_grams > 20
  /\ sized_pairs[2][2].portion_grams < 250
  /\ 10 * sized_pairs[2][2].portion_grams + 10 < sized_pairs[2][1].estimated_grams
  /\ sized_pairs[1][2].calories > 0

(***************************************************************************)
(* Properties of the hand-over between the stages                          *)
(***************************************************************************)
\* the fields of the detector are the same in a and b
same_detection(a, b) ==
  /\ a.name = b.name
  /\ a.confidence = b.confidence
  /\ a.estimated_grams = b.estimated_grams
  /\ a.estimated_portion_density = b.estimated_portion_density

\* the per-100g nutrition values are the same in a and b
same_nutrition(a, b) ==
  /\ a.nutrition_per_100g.calories = b.nutrition_per_100g.calories
  /\ a.nutrition_per_100g.protein = b.nutrition_per_100g.protein
  /\ a.nutrition_per_100g.fat = b.nutrition_per_100g.fat
  /\ a.nutrition_per_100g.carbs = b.nutrition_per_100g.carbs
  /\ a.nutrition_per_100g.fiber = b.nutrition_per_100g.fiber
  /\ a.nutrition_per_100g.glycemic_load = b.nutrition_per_100g.glycemic_load

\* C25: no stage changes a field produced upstream: name, detection
\* confidence, estimated mass, density and the per-100g nutrition values of
\* every item are the same in the output of NutritionAgent, the output of
\* StomachPhysicsAgent and the selected and skipped lists of the allocator,
\* so every accepted item keeps its full estimated_grams.
C25_UpstreamFieldsUnchanged ==
  /\ pc # "entry" =>
       /\ Len(with_nutrition) = Len(detected_dishes)
       /\ \A i \in 1..Len(detected_dishes) : same_detection(with_nutrition[i], detected_dishes[i])
  /\ pc \notin {"entry", "stomach"} =>
       /\ Len(with_stomach) = Len(with_nutrition)
       /\ \A i \in 1..Len(with_nutrition) :
            /\ same_detection(with_stomach[i], detected_dishes[i])
            /\ same_nutrition(with_stomach[i], with_nutrition[i])
  /\ \A l \in {selected, skip} :
       \A k \in 1..Len(l) :
         \E i \in 1..Len(detected_dishes) :
           /\ same_detection(l[k], detected_dishes[i])
           /\ same_nutrition(l[k], with_nutrition[i])
           /\ l[k].stomach_impact = with_stomach[i].stomach_impact

\* C25 witness: the allocator has returned a selected dish and a skipped dish
\* that was detected with density 0.
C25_ZeroDensitySkipped ==
  /\ pc = "done" /\ selected # <<>>
  /\ \E k \in 1..Len(skip) :
       skip[k].estimated_portion_density = 0 /\ skip[k].estimated_grams > 0

(***************************************************************************)
(* Properties of the plan of the whole pipeline against the budgets        *)
(***************************************************************************)
\* every item of the list has a whole-number mass of at least 20 g and a
\* positive density (mass and density in tenths)
whole_masses_from_20g(ds) ==
  \A i \in 1..Len(ds) :
    /\ ds[i].estimated_grams % 10 = 0
    /\ ds[i].estimated_grams >= 200
    /\ ds[i].estimated_portion_density > 0

\* the calories of the items sized so far, not rounded: per-100g calories
\* (tenths of a kcal) x portion (g), in thousandths of a kcal
unrounded_plan_calories ==
  SeqSum([k \in 1..Len(sized_pairs) |->
            sized_pairs[k][1].nutrition_per_100g.calories * sized_pairs[k][2].portion_grams])

\* C26: in the whole pipeline, when every item has a whole-number mass of at
\* least 20 g and a positive density, the calories of the plan (the sum of
\* per-100g calories x portion / 100 over its items, before rounding) never
\* exceed the calorie budget the allocator used.
C26_PlanCaloriesWithinBudget ==
  (pc \in {"portion", "returned", "done"} /\ whole_masses_from_20g(detected_dishes)) =>
    /\ plan_calorie_limit = opt_calorie_limit
    /\ unrounded_plan_calories <= 1000 * opt_calorie_limit
    /\ \A k \in 1..Len(sized_pairs) :
         10 * sized_pairs[k][2].portion_grams <= sized_pairs[k][1].estimated_grams

\* C26 witness: a response under a budget of 300 kcal whose plan has an item
\* and whose allocator refused a dish of whole-number mass.
C26_TightBudgetPlan ==
  /\ pc = "done" /\ whole_masses_from_20g(detected_dishes)
  /\ opt_calorie_limit = 300
  /\ Len(sized_pairs) >= 1 /\ skip # <<>>
  /\ 2 * unrounded_plan_calories > 1000 * opt_calorie_limit

\* C27: in the whole pipeline, when every item has a whole-number mass of at
\* least 20 g and a positive density, the stomach volume the plan uses never
\* exceeds stomach capacity x 1.10, the bound the allocator kept on the
\* selected dishes (volume used in tenths of a ml).
C27_PlanVolumeWithinAllocatorBound ==
  (pc \in {"returned", "done"} /\ whole_masses_from_20g(detected_dishes)) =>
    10 * stomach_used_ml <= 11 * 10 * STOMACH_CAPACITY_ML

(***************************************************************************)
(* Properties of the plan's volume and of the dietary filters              *)
(***************************************************************************)
\* the portion_ml of an item (tenths of a ml), 0 for an item without one
portion_ml_value(item) ==
  IF item.portion_ml = {} THEN 0 ELSE CHOOSE v \in item.portion_ml : TRUE

\* C28: for every selected list whose items have a non-negative mass, every
\* item of every phase carries a portion volume, and the plan's
\* stomach_used_ml is the sum of the portion_ml of all items of all phases.
C28_UsedVolumeIsSumOfPortionVolumes ==
  (pc = "returned" /\ \A i \in 1..Len(selected) : selected[i].estimated_grams >= 0) =>
    /\ \A k \in 1..Len(sized_pairs) : sized_pairs[k][2].portion_ml # {}
    /\ strategy.stomach_used_ml =
         SeqSum([k \in 1..Len(sized_pairs) |-> portion_ml_value(sized_pairs[k][2])])

\* the request is tagged vegan, with or without other tags
tagged_vegan ==
  \E i \in 1..Len(dietary_filters) : str_lower(dietary_filters[i]) = "vegan"

\* C29: every item the vegetarian filter removes, the vegan filter removes
\* too: the items that survive the filters of a request tagged vegan (with or
\* without vegetarian) are among those that survive the same list under the
\* tag vegetarian alone.
C29_VeganSurvivorsAmongVegetarian ==
  (Scored /\ tagged_vegan) =>
    \A k \in 1..Len(dishes) :
      SeqIn(dishes[k], _filter_dietary(_filter_allergies(with_stomach, allergies),
                                       <<"vegetarian">>))

(***************************************************************************)
(* Properties of the order of the items within a phase                     *)
(***************************************************************************)
\* the selected dishes of the phase with that order index, in the order of
\* the selected list
selected_of_phase(rank) ==
  SelectSeq(selected, LAMBDA d : _phase_order(PhaseTable[d]) = rank)

\* C30: in each phase of the plan the items stand in the allocator's order of
\* acceptance (descending goal score, equal scores in input order), not in
\* the detector's input order, and the running calorie and volume budgets are
\* consumed in that order: every item is sized from what the items before it
\* in its phase and the phases before left.
C30_PhaseItemsInAcceptanceOrder ==
  pc \in {"returned", "done"} =>
    /\ selected = dishes_at(accepted_positions)
    /\ \A i \in 1..Len(strategy.phases) :
         LET phase == strategy.phases[i]
             accepted == selected_of_phase(phase.phase_order)
         IN /\ Len(phase.items) = Len(accepted)
            /\ \A j \in 1..Len(accepted) :
                 /\ phase.items[j].dish_name = accepted[j].name
                 /\ \A k \in 1..(j - 1) :
                      _goal_reward(accepted[k], goal) >= _goal_reward(accepted[j], goal)
                 /\ LET before == pairs_of_phases(i - 1)
                                    \o [k \in 1..(j - 1) |-> <<accepted[k], phase.items[k]>>]
                        cal_remaining ==
                          10 * plan_calorie_limit
                            - SeqSum([k \in 1..Len(before) |-> before[k][2].calories])
                        vol_remaining ==
                          10 * STOMACH_CAPACITY_ML
                            - SeqSum([k \in 1..Len(before) |-> item_volume(before[k][2])])
                    IN is_floored_rounded_min(phase.items[j].portion_grams,
                                              caps(accepted[j], cal_remaining, vol_remaining))
    /\ \A i, j \in 1..Len(scored) :
         (i < j /\ scored[i].score = scored[j].score /\ scored[i].d # scored[j].d) =>
           \E a, b \in 1..Len(dishes) : a < b /\ dishes[a] = scored[i].d /\ dishes[b] = scored[j].d

\* C30 witness: a response whose plan has a phase of two items, the second
\* detected dish before the first.
C30_PhaseAgainstInputOrder ==
  /\ pc = "done" /\ Len(detected_dishes) = 2
  /\ detected_dishes[1].name # detected_dishes[2].name
  /\ \E i \in 1..Len(response.strategy.phases) :
       LET its == response.strategy.phases[i].items
       IN /\ Len(its) = 2
          /\ its[1].dish_name = detected_dishes[2].name
          /\ its[2].dish_name = detected_dishes[1].name
====
